---- MODULE Spec2Model ----
(***************************************************************************)
(* Voice-controlled robotic grasping pipeline: the coordinator             *)
(* (agents/master_agent.py), the ledger (agents/learning_agent.py), the    *)
(* simulated actuation service (agents/motor_control_agent.py), the        *)
(* perception service (agents/vision_agent.py) and the intent envelope     *)
(* (agents/speech_agent.py).                                               *)
(*                                                                         *)
(* Abstractions: wall-clock values (entry timestamp, duration, the file's  *)
(* last_updated) are left out of the state; a float success rate s/t*100   *)
(* is kept as the reduced fraction <<100*s/g, t/g>>; the console output is *)
(* not modelled.                                                           *)
(***************************************************************************)
EXTENDS Integers, Sequences, FiniteSets, TLC

VARIABLES
    action_history,     \* LearningAgent.action_history: sequence of log entries
    performance_stats,  \* LearningAgent.performance_stats
    object_stats,       \* LearningAgent.object_stats, in insertion order
    log_file,           \* content of LEARNING_CONFIG["log_file"]
    start_file,         \* content of the log file when the ledger was constructed
    run_calls,          \* number of log_action calls since construction
    running,            \* MasterAgent.running
    pc,                 \* position of MasterAgent.start
    raised,             \* exception that left the command loop, None if none
    calls,              \* service calls made by the latest command cycle, in order
    camera_open,        \* VisionAgent.cap is set and opened
    frame_size,         \* VisionAgent.frame_width, frame_height
    current_position,   \* MotorAgent.current_position
    gripper_open        \* MotorAgent.gripper_open

ledger_vars == <<action_history, performance_stats, object_stats, log_file,
                 start_file, run_calls>>
master_vars == <<running, pc, raised, calls>>
vision_vars == <<camera_open, frame_size>>
motor_vars == <<current_position, gripper_open>>
vars == <<action_history, performance_stats, object_stats, log_file, start_file,
          run_calls, running, pc, raised, calls, camera_open, frame_size,
          current_position, gripper_open>>

\* Python None, also the value .get() gives for a missing key.
None == "None"

\* A falsy Python value among those the model uses (None or the empty string).
Truthy(x) == x # None /\ x # ""

-----------------------------------------------------------------------------
(* Ledger: agents/learning_agent.py                                        *)

save_frequency == 10

RECURSIVE GCD(_, _)
GCD(a, b) == IF b = 0 THEN a ELSE GCD(b, a % b)

\* (successes / attempts * 100) if attempts > 0 else 0, as a reduced fraction.
SuccessRate(successes, attempts) ==
    IF attempts > 0
    THEN LET g == GCD(successes * 100, attempts)
         IN  <<(successes * 100) \div g, attempts \div g>>
    ELSE <<0, 1>>

InitialStats ==
    [total_actions |-> 0, successful_actions |-> 0, failed_actions |-> 0,
     success_rate |-> <<0, 1>>]

NewObjectStats(obj) ==
    [name |-> obj, attempts |-> 0, successes |-> 0, failures |-> 0,
     success_rate |-> <<0, 1>>]

\* Position of obj in the insertion-ordered object_stats, 0 if absent.
ObjIndex(ostats, obj) ==
    IF \E i \in 1..Len(ostats) : ostats[i].name = obj
    THEN CHOOSE i \in 1..Len(ostats) : ostats[i].name = obj
    ELSE 0

\* The entry log_action builds from its argument: a field that is None stands
\* for a missing key, and a missing result defaults to "unknown".
LogEntry(action_data) ==
    [action |-> action_data.action,
     object |-> action_data.object,
     result |-> IF action_data.result = None THEN "unknown" ELSE action_data.result,
     error  |-> action_data.error]

UpdateOverallStale(stats, log_entry) ==
    LET total == stats.total_actions + 1
        successful == stats.successful_actions
                        + (IF log_entry.result = "success" THEN 1 ELSE 0)
        failed == stats.failed_actions
                        + (IF log_entry.result = "failure" THEN 1 ELSE 0)
    IN  [total_actions |-> total, successful_actions |-> successful,
         failed_actions |-> failed,
         success_rate |-> SuccessRate(stats.successful_actions, stats.total_actions)]

\* _update_stats, overall part.
UpdateOverall(stats, log_entry) ==
    LET total == stats.total_actions + 1
        successful == stats.successful_actions
                        + (IF log_entry.result = "success" THEN 1 ELSE 0)
        failed == stats.failed_actions
                        + (IF log_entry.result = "failure" THEN 1 ELSE 0)
    IN  [total_actions |-> total, successful_actions |-> successful,
         failed_actions |-> failed,
         success_rate |-> SuccessRate(successful, total)]

UpdateObjectsNoFailures(ostats, log_entry) ==
    LET obj == log_entry.object
        known == IF ObjIndex(ostats, obj) = 0
                 THEN Append(ostats, NewObjectStats(obj)) ELSE ostats
        i == ObjIndex(known, obj)
        attempts == known[i].attempts + 1
        successes == known[i].successes
                        + (IF log_entry.result = "success" THEN 1 ELSE 0)
    IN  IF Truthy(obj)
        THEN [known EXCEPT ![i] = [name |-> obj, attempts |-> attempts,
                                   successes |-> successes,
                                   failures |-> known[i].failures,
                                   success_rate |-> SuccessRate(successes, attempts)]]
        ELSE ostats

\* _update_stats, per-object part.
UpdateObjects(ostats, log_entry) ==
    LET obj == log_entry.object
        known == IF ObjIndex(ostats, obj) = 0
                 THEN Append(ostats, NewObjectStats(obj)) ELSE ostats
        i == ObjIndex(known, obj)
        attempts == known[i].attempts + 1
        successes == known[i].successes
                        + (IF log_entry.result = "success" THEN 1 ELSE 0)
        failures == known[i].failures
                        + (IF log_entry.result = "failure" THEN 1 ELSE 0)
    IN  IF Truthy(obj)
        THEN [known EXCEPT ![i] = [name |-> obj, attempts |-> attempts,
                                   successes |-> successes, failures |-> failures,
                                   success_rate |-> SuccessRate(successes, attempts)]]
        ELSE ostats

\* The log file does not exist.
NoFile ==
    [exists |-> FALSE, history |-> <<>>, stats |-> InitialStats,
     object_stats |-> <<>>]

\* The document _save_history writes (last_updated left out).
SavedDocument(history, stats, ostats) ==
    [exists |-> TRUE, history |-> history, stats |-> stats,
     object_stats |-> ostats]

FileAfterAppend_EverySecondTime(file, history, stats, ostats) ==
    IF Len(history) % (2 * save_frequency) = 0
    THEN SavedDocument(history, stats, ostats)
    ELSE file

\* The file after the periodic save of log_action.
FileAfterAppend(file, history, stats, ostats) ==
    IF Len(history) % save_frequency = 0
    THEN SavedDocument(history, stats, ostats)
    ELSE file

log_action_SaveBeforeAppend(action_data) ==
    LET log_entry == LogEntry(action_data)
        history == Append(action_history, log_entry)
        stats == UpdateOverall(performance_stats, log_entry)
        ostats == UpdateObjects(object_stats, log_entry)
    IN  /\ action_history' = history
        /\ performance_stats' = stats
        /\ object_stats' = ostats
        /\ log_file' = IF Len(history) % save_frequency = 0
                       THEN SavedDocument(action_history, performance_stats,
                                          object_stats)
                       ELSE log_file
        /\ run_calls' = run_calls + 1
        /\ UNCHANGED start_file

log_action_Prepends(action_data) ==
    LET log_entry == LogEntry(action_data)
        history == <<log_entry>> \o action_history
        stats == UpdateOverall(performance_stats, log_entry)
        ostats == UpdateObjects(object_stats, log_entry)
    IN  /\ action_history' = history
        /\ performance_stats' = stats
        /\ object_stats' = ostats
        /\ log_file' = FileAfterAppend(log_file, history, stats, ostats)
        /\ run_calls' = run_calls + 1
        /\ UNCHANGED start_file

\* LearningAgent.log_action
log_action(action_data) ==
    LET log_entry == LogEntry(action_data)
        history == Append(action_history, log_entry)
        stats == UpdateOverall(performance_stats, log_entry)
        ostats == UpdateObjects(object_stats, log_entry)
    IN  /\ action_history' = history
        /\ performance_stats' = stats
        /\ object_stats' = ostats
        /\ log_file' = FileAfterAppend(log_file, history, stats, ostats)
        /\ run_calls' = run_calls + 1
        /\ UNCHANGED start_file

load_history_DropsObjectStats(file) ==
    IF file.exists
    THEN [history |-> file.history, stats |-> file.stats, object_stats |-> <<>>]
    ELSE [history |-> <<>>, stats |-> InitialStats, object_stats |-> <<>>]

\* _load_history over the fields __init__ has just set: each key of the
\* document replaces the field, a missing file leaves the fresh values.  The
\* document holds strings, integers, floats, null, lists and string-keyed
\* dicts only, which json.load gives back as json.dump received them.
load_history(file) ==
    IF file.exists
    THEN [history |-> file.history, stats |-> file.stats,
          object_stats |-> file.object_stats]
    ELSE [history |-> <<>>, stats |-> InitialStats, object_stats |-> <<>>]

\* LearningAgent.__init__ with _load_history: the ledger built over `file`.
LedgerInit(file) ==
    /\ log_file = file
    /\ start_file = file
    /\ run_calls = 0
    /\ action_history = load_history(file).history
    /\ performance_stats = load_history(file).stats
    /\ object_stats = load_history(file).object_stats

-----------------------------------------------------------------------------
(* Message envelope: utils/message_format.py                               *)

\* create_message (the timestamp left out).
create_message(agent_name, message_type, data, status) ==
    [agent |-> agent_name, type |-> message_type, data |-> data,
     status |-> status]

-----------------------------------------------------------------------------
(* Report of the ledger: agents/learning_agent.py                          *)

\* A recommendation string; `object` is the name formatted into it, None for
\* the fixed strings.
Recommendation(text, obj) == [text |-> text, object |-> obj]

LowRate ==
    Recommendation("Low success rate - Check camera positioning and lighting",
                   None)
ModerateRate ==
    Recommendation("Moderate success rate - Consider recalibrating vision system",
                   None)
GoodRate ==
    Recommendation("Good success rate - System performing well", None)
Difficulty(obj) ==
    Recommendation("Difficulty grasping {obj} - May need custom grip strategy",
                   obj)
Maintenance ==
    Recommendation("Multiple recent failures - System may need maintenance",
                   None)

\* rate < bound, for a rate held as a fraction with positive denominator.
RateBelow(rate, bound) == rate[1] < bound * rate[2]

OverallRule_NeverModerate(stats) ==
    IF RateBelow(stats.success_rate, 50) THEN <<LowRate>>
    ELSE <<GoodRate>>

\* _generate_recommendations, the check of the overall success rate.
OverallRule(stats) ==
    IF RateBelow(stats.success_rate, 50) THEN <<LowRate>>
    ELSE IF RateBelow(stats.success_rate, 70) THEN <<ModerateRate>>
    ELSE <<GoodRate>>

RECURSIVE ObjectRules_AnyAttempts(_)
ObjectRules_AnyAttempts(ostats) ==
    IF ostats = <<>>
    THEN <<>>
    ELSE IF RateBelow(Head(ostats).success_rate, 50)
         THEN <<Difficulty(Head(ostats).name)>> \o ObjectRules_AnyAttempts(Tail(ostats))
         ELSE ObjectRules_AnyAttempts(Tail(ostats))

\* _generate_recommendations, the loop over object_stats.items().
RECURSIVE ObjectRules(_)
ObjectRules(ostats) ==
    IF ostats = <<>>
    THEN <<>>
    ELSE IF RateBelow(Head(ostats).success_rate, 50) /\ Head(ostats).attempts > 3
         THEN <<Difficulty(Head(ostats).name)>> \o ObjectRules(Tail(ostats))
         ELSE ObjectRules(Tail(ostats))

\* action_history[-10:]
LastTen(history) ==
    IF Len(history) > 10
    THEN SubSeq(history, Len(history) - 9, Len(history))
    ELSE history

RecentFailureRule_WholeHistory(history) ==
    LET recent_failures == SelectSeq(history, LAMBDA entry : entry.result = "failure")
    IN  IF Len(recent_failures) >= 5 THEN <<Maintenance>> ELSE <<>>

\* _generate_recommendations, the check of the recent failures.
RecentFailureRule(history) ==
    LET recent_failures ==
            SelectSeq(LastTen(history), LAMBDA entry : entry.result = "failure")
    IN  IF Len(recent_failures) >= 5 THEN <<Maintenance>> ELSE <<>>

generate_recommendations_MaintenanceFirst(stats, ostats, history) ==
    RecentFailureRule(history) \o OverallRule(stats) \o ObjectRules(ostats)

\* LearningAgent._generate_recommendations
generate_recommendations(stats, ostats, history) ==
    OverallRule(stats) \o ObjectRules(ostats) \o RecentFailureRule(history)

\* LearningAgent.get_performance_report (the timestamp left out).
get_performance_report(stats, ostats, history) ==
    create_message("learning_agent", "report",
                   [overall_performance |-> stats,
                    object_performance |-> ostats,
                    recent_actions |-> LastTen(history),
                    recommendations |->
                        generate_recommendations(stats, ostats, history)],
                   "success")

\* dict.get(key): None for a missing key.
Get(dict, key) == IF key \in DOMAIN dict THEN dict[key] ELSE None

-----------------------------------------------------------------------------
(* Perception: agents/vision_agent.py                                      *)

\* The characters of the strings the model uses.
Chars(s) ==
    CASE s = "bottle" -> <<"b", "o", "t", "t", "l", "e">>
      [] s = "glass" -> <<"g", "l", "a", "s", "s">>
      [] s = "wine glass" -> <<"w", "i", "n", "e", " ", "g", "l", "a", "s", "s">>
      [] s = "person" -> <<"p", "e", "r", "s", "o", "n">>
      [] s = "cup" -> <<"c", "u", "p">>
      [] s = "Bottle" -> <<"B", "o", "t", "t", "l", "e">>
      [] s = "pick" -> <<"p", "i", "c", "k">>
      [] s = "grab" -> <<"g", "r", "a", "b">>
      [] s = "take" -> <<"t", "a", "k", "e">>
      [] s = "get" -> <<"g", "e", "t">>
      [] s = "pickup" -> <<"p", "i", "c", "k", "u", "p">>
      [] s = "place" -> <<"p", "l", "a", "c", "e">>
      [] s = "put" -> <<"p", "u", "t">>
      [] s = "drop" -> <<"d", "r", "o", "p">>
      [] s = "set" -> <<"s", "e", "t">>
      [] s = "release" -> <<"r", "e", "l", "e", "a", "s", "e">>
      [] s = "move" -> <<"m", "o", "v", "e">>
      [] s = "shift" -> <<"s", "h", "i", "f", "t">>
      [] s = "transfer" -> <<"t", "r", "a", "n", "s", "f", "e", "r">>
      [] s = "show" -> <<"s", "h", "o", "w">>
      [] s = "display" -> <<"d", "i", "s", "p", "l", "a", "y">>
      [] s = "list" -> <<"l", "i", "s", "t">>
      [] s = "find" -> <<"f", "i", "n", "d">>
      [] s = "stop" -> <<"s", "t", "o", "p">>
      [] s = "halt" -> <<"h", "a", "l", "t">>
      [] s = "cancel" -> <<"c", "a", "n", "c", "e", "l">>
      [] s = "abort" -> <<"a", "b", "o", "r", "t">>
      [] s = "bowl" -> <<"b", "o", "w", "l">>
      [] s = "can" -> <<"c", "a", "n">>
      [] s = "phone" -> <<"p", "h", "o", "n", "e">>
      [] s = "book" -> <<"b", "o", "o", "k">>
      [] s = "pen" -> <<"p", "e", "n">>
      [] s = "remote" -> <<"r", "e", "m", "o", "t", "e">>
      [] s = "ball" -> <<"b", "a", "l", "l">>
      [] s = "banana" -> <<"b", "a", "n", "a", "n", "a">>
      [] s = "apple" -> <<"a", "p", "p", "l", "e">>
      [] s = "orange" -> <<"o", "r", "a", "n", "g", "e">>
      [] s = "box" -> <<"b", "o", "x">>
      [] s = "forget" -> <<"f", "o", "r", "g", "e", "t">>
      [] s = "settle" -> <<"s", "e", "t", "t", "l", "e">>
      [] s = "open" -> <<"o", "p", "e", "n">>
      [] s = "the" -> <<"t", "h", "e">>

\* str.lower, character by character.
LowerChar(c) ==
    CASE c = "B" -> "b"
      [] c = "G" -> "g"
      [] OTHER -> c

Lower(chars) == [i \in 1..Len(chars) |-> LowerChar(chars[i])]

\* a in b, for character sequences.
IsSubstring(a, b) ==
    \E i \in 0..(Len(b) - Len(a)) : SubSeq(b, i + 1, i + Len(a)) = a

\* settings.GRASPABLE_OBJECTS
GRASPABLE_OBJECTS ==
    {"bottle", "cup", "wine glass", "bowl", "banana", "apple", "orange",
     "sandwich", "cell phone", "book", "remote", "mouse", "keyboard",
     "scissors", "teddy bear"}

\* One detection of detect_objects, from a box the detector returned.
Detection(box) ==
    [class_name |-> box.class_name,
     confidence |-> box.confidence,
     bbox |-> [x1 |-> box.x1, y1 |-> box.y1, x2 |-> box.x2, y2 |-> box.y2,
               center_x |-> (box.x1 + box.x2) \div 2,
               center_y |-> (box.y1 + box.y2) \div 2,
               width |-> box.x2 - box.x1,
               height |-> box.y2 - box.y1],
     is_graspable |-> box.class_name \in GRASPABLE_OBJECTS]

\* VisionAgent.detect_objects over the boxes the detector returns for a frame.
detect_objects(boxes) == [i \in 1..Len(boxes) |-> Detection(boxes[i])]

estimate_position_Inclusive(detection, size) ==
    LET cx == detection.bbox.center_x
        cy == detection.bbox.center_y
        area == detection.bbox.width * detection.bbox.height
        frame_area == size[1] * size[2]
    IN  [horizontal |-> IF 100 * cx <= 33 * size[1] THEN "left"
                        ELSE IF 100 * cx <= 66 * size[1] THEN "center"
                        ELSE "right",
         vertical |-> IF 100 * cy <= 33 * size[2] THEN "top"
                      ELSE IF 100 * cy <= 66 * size[2] THEN "middle"
                      ELSE "bottom",
         depth |-> IF 100 * area >= 15 * frame_area THEN "very_close"
                   ELSE IF 100 * area >= 8 * frame_area THEN "close"
                   ELSE IF 100 * area >= 3 * frame_area THEN "medium"
                   ELSE "far",
         coordinates |-> [x |-> cx, y |-> cy]]

\* VisionAgent.estimate_position; c < w * 0.33 is compared as 100 c < 33 w.
estimate_position(detection, size) ==
    LET cx == detection.bbox.center_x
        cy == detection.bbox.center_y
        area == detection.bbox.width * detection.bbox.height
        frame_area == size[1] * size[2]
    IN  [horizontal |-> IF 100 * cx < 33 * size[1] THEN "left"
                        ELSE IF 100 * cx < 66 * size[1] THEN "center"
                        ELSE "right",
         vertical |-> IF 100 * cy < 33 * size[2] THEN "top"
                      ELSE IF 100 * cy < 66 * size[2] THEN "middle"
                      ELSE "bottom",
         depth |-> IF 100 * area > 15 * frame_area THEN "very_close"
                   ELSE IF 100 * area > 8 * frame_area THEN "close"
                   ELSE IF 100 * area > 3 * frame_area THEN "medium"
                   ELSE "far",
         coordinates |-> [x |-> cx, y |-> cy]]

\* The test of the scan in find_object.
Matches(target_object, det) ==
    /\ IsSubstring(Lower(Chars(target_object)), Lower(Chars(det.class_name)))
    /\ det.is_graspable

find_object_BestConfidence(target_object, frame_ok, boxes, size) ==
    LET detections == detect_objects(boxes)
        hits == {i \in 1..Len(detections) : Matches(target_object, detections[i])}
        best == CHOOSE i \in hits :
                    \A j \in hits : detections[i].confidence >= detections[j].confidence
    IN  IF ~frame_ok
        THEN create_message("vision_agent", "detection",
                            [error |-> "Camera not available"], "error")
        ELSE IF hits # {}
        THEN create_message("vision_agent", "detection",
                            [found |-> TRUE, object |-> detections[best],
                             position |-> estimate_position(detections[best], size)],
                            "success")
        ELSE create_message("vision_agent", "detection",
                            [found |-> FALSE, target |-> target_object,
                             total_objects |-> Len(detections)],
                            "error")

\* VisionAgent.find_object: frame_ok is whether capture_frame gave a frame,
\* boxes what the detector returns for it.
find_object(target_object, frame_ok, boxes, size) ==
    LET detections == detect_objects(boxes)
        hits == {i \in 1..Len(detections) : Matches(target_object, detections[i])}
        first == CHOOSE i \in hits : \A j \in hits : i <= j
    IN  IF ~frame_ok
        THEN create_message("vision_agent", "detection",
                            [error |-> "Camera not available"], "error")
        ELSE IF hits # {}
        THEN create_message("vision_agent", "detection",
                            [found |-> TRUE, object |-> detections[first],
                             position |-> estimate_position(detections[first], size)],
                            "success")
        ELSE create_message("vision_agent", "detection",
                            [found |-> FALSE, target |-> target_object,
                             total_objects |-> Len(detections)],
                            "error")

\* VisionAgent.scan_scene
scan_scene(frame_ok, boxes) ==
    LET detections == detect_objects(boxes)
        graspable == SelectSeq(detections, LAMBDA d : d.is_graspable)
    IN  IF ~frame_ok
        THEN create_message("vision_agent", "scan",
                            [error |-> "Camera not available"], "error")
        ELSE create_message("vision_agent", "scan",
                            [total_objects |-> Len(detections),
                             graspable_count |-> Len(graspable),
                             graspable_objects |-> graspable],
                            "success")

-----------------------------------------------------------------------------
(* Actuation: agents/motor_control_agent.py                                *)

\* MOTOR_CONFIG["simulation_mode"]
simulation_mode == TRUE

\* The text of an exception raised inside a choreography.
FaultText == "actuator fault"

\* The motor state as a record, for the choreographies.
MotorState(position, open) == [current_position |-> position, gripper_open |-> open]

\* MotorAgent.move_to_position
move_to_position(motor, target_position) ==
    IF simulation_mode
    THEN [motor EXCEPT !.current_position = target_position]
    ELSE motor

\* MotorAgent.open_gripper
open_gripper(motor) ==
    IF simulation_mode THEN [motor EXCEPT !.gripper_open = TRUE] ELSE motor

\* MotorAgent.close_gripper
close_gripper(motor) ==
    IF simulation_mode THEN [motor EXCEPT !.gripper_open = FALSE] ELSE motor

\* Steps of the pick choreography: move, open, move down, close, lift.
PickSteps == 5
\* Steps of the place choreography: move, move down, open, move up.
PlaceSteps == 4

\* The steps of pick_object and of place_object, in program order; move_down,
\* lift and move_up are the waits between the calls.
PickOrder ==
    <<"move_to_position", "open_gripper", "move_down", "close_gripper", "lift">>
PlaceOrder == <<"move_to_position", "move_down", "open_gripper", "move_up">>

\* The steps of a choreography that completed: all of them, or those before
\* the step that raised.
StepsDone(order, fault) ==
    SubSeq(order, 1, IF fault = 0 THEN Len(order) ELSE fault - 1)

pick_object_SkipsClose(motor, object_info, fault) ==
    LET position == IF "position" \in DOMAIN object_info
                    THEN object_info.position ELSE <<>>
        m1 == IF fault = 1 THEN motor ELSE move_to_position(motor, position)
        m2 == IF fault \in 1..2 THEN m1 ELSE open_gripper(m1)
    IN  [motor |-> m2,
         envelope |->
            IF fault = 0
            THEN create_message("motor_agent", "action",
                                [action |-> "pick", status |-> "success",
                                 object |-> object_info.object.class_name],
                                "success")
            ELSE create_message("motor_agent", "action",
                                [action |-> "pick", error |-> "actuator fault"],
                                "error")]

\* MotorAgent.pick_object. fault = 0: no step raises; fault = k: step k raises
\* before it acts. Gives the motor state left behind and the envelope.
pick_object(motor, object_info, fault) ==
    LET position == IF "position" \in DOMAIN object_info
                    THEN object_info.position ELSE <<>>
        m1 == IF fault = 1 THEN motor ELSE move_to_position(motor, position)
        m2 == IF fault \in 1..2 THEN m1 ELSE open_gripper(m1)
        m4 == IF fault \in 1..4 THEN m2 ELSE close_gripper(m2)
    IN  [motor |-> m4,
         envelope |->
            IF fault = 0
            THEN create_message("motor_agent", "action",
                                [action |-> "pick", status |-> "success",
                                 object |-> object_info.object.class_name],
                                "success")
            ELSE create_message("motor_agent", "action",
                                [action |-> "pick", error |-> FaultText],
                                "error")]

place_object_HidesFault(motor, target_position, fault) ==
    LET m1 == IF fault = 1 THEN motor ELSE move_to_position(motor, target_position)
        m3 == IF fault \in 1..3 THEN m1 ELSE open_gripper(m1)
    IN  [motor |-> m3,
         envelope |-> create_message("motor_agent", "action",
                                     [action |-> "place", status |-> "success"],
                                     "success")]

\* MotorAgent.place_object, with fault as in pick_object.
place_object(motor, target_position, fault) ==
    LET m1 == IF fault = 1 THEN motor ELSE move_to_position(motor, target_position)
        m3 == IF fault \in 1..3 THEN m1 ELSE open_gripper(m1)
    IN  [motor |-> m3,
         envelope |->
            IF fault = 0
            THEN create_message("motor_agent", "action",
                                [action |-> "place", status |-> "success"],
                                "success")
            ELSE create_message("motor_agent", "action",
                                [action |-> "place", error |-> FaultText],
                                "error")]

\* MotorAgent.stop
motor_stop ==
    create_message("motor_agent", "action",
                   [action |-> "stop", status |-> "stopped"], "success")

-----------------------------------------------------------------------------
(* Intent: agents/speech_agent.py                                          *)

\* SpeechAgent.action_keywords, in the order of the dict.
action_keywords ==
    <<[action |-> "pick",
       keywords |-> <<"pick", "grab", "take", "get", "pickup">>],
      [action |-> "place",
       keywords |-> <<"place", "put", "drop", "set", "release">>],
      [action |-> "move", keywords |-> <<"move", "shift", "transfer">>],
      [action |-> "show", keywords |-> <<"show", "display", "list", "find">>],
      [action |-> "stop", keywords |-> <<"stop", "halt", "cancel", "abort">>]>>

\* SpeechAgent.known_objects
known_objects ==
    <<"bottle", "cup", "glass", "bowl", "can", "phone", "book", "pen", "remote",
      "ball", "banana", "apple", "orange", "box">>

\* any(keyword in text for keyword in keywords), text a character sequence.
AnyKeyword(keywords, text) ==
    \E k \in 1..Len(keywords) : IsSubstring(Chars(keywords[k]), text)

\* The loop over action_keywords.items(), left at the first match.
RECURSIVE FirstAction(_, _)
FirstAction(table, text) ==
    IF table = <<>> THEN None
    ELSE IF AnyKeyword(Head(table).keywords, text) THEN Head(table).action
    ELSE FirstAction(Tail(table), text)

\* The loop over known_objects, left at the first match.
RECURSIVE FirstObject(_, _)
FirstObject(objects, text) ==
    IF objects = <<>> THEN None
    ELSE IF IsSubstring(Chars(Head(objects)), text) THEN Head(objects)
    ELSE FirstObject(Tail(objects), text)

extract_keywords_LastCategory(text) ==
    LET reversed == [i \in 1..Len(action_keywords) |->
                        action_keywords[Len(action_keywords) + 1 - i]]
        action == FirstAction(reversed, text)
        obj == FirstObject(known_objects, text)
    IN  [action |-> action, object |-> obj,
         confidence |-> (IF action # None THEN 50 ELSE 0)
                            + (IF obj # None THEN 50 ELSE 0)]

\* SpeechAgent.extract_keywords; the confidence in hundredths.
extract_keywords(text) ==
    LET action == FirstAction(action_keywords, text)
        obj == FirstObject(known_objects, text)
    IN  [action |-> action, object |-> obj,
         confidence |-> (IF action # None THEN 50 ELSE 0)
                            + (IF obj # None THEN 50 ELSE 0)]

\* The envelope get_command builds: heard is whether listen gave a text,
\* result the {action, object, confidence} it settled on.
get_command(heard, result) ==
    IF ~heard
    THEN create_message("speech_agent", "intent",
                        [error |-> "No speech detected"], "error")
    ELSE create_message("speech_agent", "intent",
                        [action |-> result.action, object |-> result.object,
                         confidence |-> result.confidence],
                        IF Truthy(result.action) THEN "success" ELSE "error")

\* The state of the other agents right after MasterAgent.__init__.
AgentsCreated ==
    /\ running = FALSE
    /\ pc = "created"
    /\ raised = None
    /\ calls = <<>>
    /\ camera_open = FALSE
    /\ frame_size = <<0, 0>>
    /\ current_position = [x |-> 0, y |-> 0, z |-> 0]
    /\ gripper_open = TRUE

-----------------------------------------------------------------------------
(* What the camera and the detector give the runs.                         *)

\* Entries one run of the pipeline logs at most.
MaxEntries == 2

\* Frame sizes the camera reports.
FrameSizes == {<<640, 480>>}

Box(class_name, confidence, x1, y1, x2, y2) ==
    [class_name |-> class_name, confidence |-> confidence,
     x1 |-> x1, y1 |-> y1, x2 |-> x2, y2 |-> y2]

\* What the detector returns for the frames of the runs.
Scenes ==
    {<<>>,
     <<Box("person", 95, 0, 0, 100, 400)>>,
     <<Box("person", 95, 0, 0, 100, 400), Box("bottle", 90, 200, 100, 400, 400)>>,
     <<Box("wine glass", 60, 500, 20, 540, 80), Box("bottle", 90, 200, 100, 400, 400)>>}

\* What capture_frame gives: no frame, or a frame with its boxes.
Frames ==
    {[ok |-> FALSE, boxes |-> <<>>]} \cup {[ok |-> TRUE, boxes |-> b] : b \in Scenes}

-----------------------------------------------------------------------------
(* Coordinator: agents/master_agent.py                                     *)

\* One service call of a command cycle: the function, its argument, what it
\* returned.
Call(fn, arg, ret) == [fn |-> fn, arg |-> arg, ret |-> ret]

\* MasterAgent.stop: release the camera, print the statistics.
stop ==
    /\ camera_open' = FALSE
    /\ UNCHANGED <<frame_size, ledger_vars, motor_vars>>

handle_stop_KeepsRunning(trace) ==
    /\ calls' = Append(trace, Call("motor_stop", None, motor_stop))
    /\ UNCHANGED <<running, ledger_vars, motor_vars>>

\* MasterAgent._handle_stop; trace holds the calls the cycle made before it.
handle_stop(trace) ==
    /\ calls' = Append(trace, Call("motor_stop", None, motor_stop))
    /\ running' = FALSE
    /\ UNCHANGED <<ledger_vars, motor_vars>>

handle_show_StopsOnScanError(trace) ==
    \E frame \in Frames :
        LET result == scan_scene(frame.ok, frame.boxes)
        IN  /\ calls' = Append(trace, Call("scan_scene", None, result))
            /\ running' = (result.status = "success")
            /\ UNCHANGED <<ledger_vars, motor_vars>>

\* MasterAgent._handle_show
handle_show(trace) ==
    \E frame \in Frames :
        LET result == scan_scene(frame.ok, frame.boxes)
        IN  /\ calls' = Append(trace, Call("scan_scene", None, result))
            /\ UNCHANGED <<running, ledger_vars, motor_vars>>

\* The envelope of find_object reports no object.
NotFound(vision_result) ==
    \/ vision_result.status # "success"
    \/ "found" \notin DOMAIN vision_result.data
    \/ ~vision_result.data.found

PickOutcome_DropsError(target_object, motor_result) ==
    [action |-> "pick", object |-> target_object,
     result |-> IF motor_result.status = "success" THEN "success" ELSE "failure",
     error |-> None]

PickOutcome_NoObject(target_object, motor_result) ==
    IF motor_result.status = "success"
    THEN [action |-> "pick", object |-> None, result |-> "success",
          error |-> None]
    ELSE [action |-> "pick", object |-> None, result |-> "failure",
          error |-> Get(motor_result.data, "error")]

\* What _handle_pick logs after pick_object returned motor_result.
PickOutcome(target_object, motor_result) ==
    IF motor_result.status = "success"
    THEN [action |-> "pick", object |-> target_object, result |-> "success",
          error |-> None]
    ELSE [action |-> "pick", object |-> target_object, result |-> "failure",
          error |-> Get(motor_result.data, "error")]

PickNotFound_NoError(target_object) ==
    [action |-> "pick", object |-> target_object, result |-> "failure",
     error |-> None]

\* What _handle_pick logs when the object was not found.
PickNotFound(target_object) ==
    [action |-> "pick", object |-> target_object, result |-> "failure",
     error |-> "Object not found"]

\* _handle_pick from the call of pick_object on.
PickFound(trace, target_object, vision_result) ==
    \E fault \in 0..PickSteps :
        LET picked == pick_object(MotorState(current_position, gripper_open),
                                  vision_result.data, fault)
            logged == PickOutcome(target_object, picked.envelope)
        IN  /\ current_position' = picked.motor.current_position
            /\ gripper_open' = picked.motor.gripper_open
            /\ log_action(logged)
            /\ calls' = trace \o <<
                   Call("pick_object", vision_result.data, picked.envelope),
                   Call("log_action", logged, None)>>
            /\ UNCHANGED running

handle_pick_LogsMissingObject(trace, target_object) ==
    IF ~Truthy(target_object)
    THEN /\ log_action(PickNotFound(target_object))
         /\ calls' = Append(trace,
                Call("log_action", PickNotFound(target_object), None))
         /\ UNCHANGED <<running, motor_vars>>
    ELSE \E frame \in Frames :
        LET vision_result == find_object(target_object, frame.ok, frame.boxes,
                                         frame_size)
            found == Call("find_object", target_object, vision_result)
        IN  IF NotFound(vision_result)
            THEN /\ log_action(PickNotFound(target_object))
                 /\ calls' = trace \o <<found,
                        Call("log_action", PickNotFound(target_object), None)>>
                 /\ UNCHANGED <<running, motor_vars>>
            ELSE PickFound(Append(trace, found), target_object, vision_result)

handle_pick_RetriesFind(trace, target_object) ==
    IF ~Truthy(target_object)
    THEN /\ calls' = trace
         /\ UNCHANGED <<running, ledger_vars, motor_vars>>
    ELSE \E frame \in Frames :
        LET vision_result == find_object(target_object, frame.ok, frame.boxes,
                                         frame_size)
            found == Call("find_object", target_object, vision_result)
        IN  IF NotFound(vision_result)
            THEN /\ log_action(PickNotFound(target_object))
                 /\ calls' = trace \o <<found, found,
                        Call("log_action", PickNotFound(target_object), None)>>
                 /\ UNCHANGED <<running, motor_vars>>
            ELSE PickFound(Append(trace, found), target_object, vision_result)

\* MasterAgent._handle_pick
handle_pick(trace, target_object) ==
    IF ~Truthy(target_object)
    THEN /\ calls' = trace
         /\ UNCHANGED <<running, ledger_vars, motor_vars>>
    ELSE \E frame \in Frames :
        LET vision_result == find_object(target_object, frame.ok, frame.boxes,
                                         frame_size)
            found == Call("find_object", target_object, vision_result)
        IN  IF NotFound(vision_result)
            THEN /\ log_action(PickNotFound(target_object))
                 /\ calls' = trace \o <<found,
                        Call("log_action", PickNotFound(target_object), None)>>
                 /\ UNCHANGED <<running, motor_vars>>
            ELSE PickFound(Append(trace, found), target_object, vision_result)

\* The default target of _handle_place.
DefaultPlacePosition ==
    [horizontal |-> "center", vertical |-> "middle", depth |-> "close"]

PlaceOutcome_KeepsNone(target_object, motor_result) ==
    [action |-> "place", object |-> target_object,
     result |-> IF motor_result.status = "success" THEN "success" ELSE "failure",
     error |-> None]

\* What _handle_place logs after place_object returned motor_result.
PlaceOutcome(target_object, motor_result) ==
    [action |-> "place",
     object |-> IF Truthy(target_object) THEN target_object ELSE "unknown",
     result |-> IF motor_result.status = "success" THEN "success" ELSE "failure",
     error |-> None]

\* MasterAgent._handle_place
handle_place(trace, target_object) ==
    \E fault \in 0..PlaceSteps :
        LET placed == place_object(MotorState(current_position, gripper_open),
                                   DefaultPlacePosition, fault)
            logged == PlaceOutcome(target_object, placed.envelope)
        IN  /\ current_position' = placed.motor.current_position
            /\ gripper_open' = placed.motor.gripper_open
            /\ log_action(logged)
            /\ calls' = trace \o <<
                   Call("place_object", DefaultPlacePosition, placed.envelope),
                   Call("log_action", logged, None)>>
            /\ UNCHANGED running

FailedIntent ==
    [action |-> None, object |-> None, result |-> "failure",
     error |-> "Could not understand command"]

process_command_LogsFailedIntent(speech_result) ==
    LET trace == <<Call("get_command", None, speech_result)>>
        action == Get(speech_result.data, "action")
        target_object == Get(speech_result.data, "object")
    IN  IF speech_result.status # "success"
        THEN /\ Len(action_history) < MaxEntries
             /\ log_action(FailedIntent)
             /\ calls' = Append(trace, Call("log_action", FailedIntent, None))
             /\ UNCHANGED <<running, motor_vars>>
        ELSE IF action = "stop" THEN handle_stop(trace)
        ELSE IF action = "show" THEN handle_show(trace)
        ELSE IF action = "pick" THEN handle_pick(trace, target_object)
        ELSE IF action = "place" THEN handle_place(trace, target_object)
        ELSE /\ calls' = trace
             /\ UNCHANGED <<running, ledger_vars, motor_vars>>

process_command_MoveIsPlace(speech_result) ==
    LET trace == <<Call("get_command", None, speech_result)>>
        action == Get(speech_result.data, "action")
        target_object == Get(speech_result.data, "object")
    IN  IF speech_result.status # "success"
        THEN /\ calls' = trace
             /\ UNCHANGED <<running, ledger_vars, motor_vars>>
        ELSE IF action = "stop" THEN handle_stop(trace)
        ELSE IF action = "show" THEN handle_show(trace)
        ELSE IF action = "pick" THEN handle_pick(trace, target_object)
        ELSE IF action = "place" THEN handle_place(trace, target_object)
        ELSE /\ Len(action_history) < MaxEntries
             /\ handle_place(trace, target_object)

\* MasterAgent._process_command, given the envelope get_command returns.
process_command(speech_result) ==
    LET trace == <<Call("get_command", None, speech_result)>>
        action == Get(speech_result.data, "action")
        target_object == Get(speech_result.data, "object")
    IN  IF speech_result.status # "success"
        THEN /\ calls' = trace
             /\ UNCHANGED <<running, ledger_vars, motor_vars>>
        ELSE IF action = "stop" THEN handle_stop(trace)
        ELSE IF action = "show" THEN handle_show(trace)
        ELSE IF action = "pick" THEN handle_pick(trace, target_object)
        ELSE IF action = "place" THEN handle_place(trace, target_object)
        ELSE /\ calls' = trace
             /\ UNCHANGED <<running, ledger_vars, motor_vars>>

capture_and_detect_Always(frame) ==
    <<Call("capture_frame", None, frame),
      Call("detect_objects", frame, detect_objects(frame.boxes))>>

\* The calls find_object and scan_scene make before they build their
\* envelope: capture_frame, then detect_objects if there is a frame.  A frame
\* whose ok is false stands for the None of capture_frame.
capture_and_detect(frame) ==
    IF ~frame.ok
    THEN <<Call("capture_frame", None, frame)>>
    ELSE <<Call("capture_frame", None, frame),
           Call("detect_objects", frame, detect_objects(frame.boxes))>>

-----------------------------------------------------------------------------
(* The whole pipeline, MasterAgent.start, over bounded inputs.             *)

SpokenActions == {"pick", "place", "move", "show", "stop", None}
SpokenObjects == {"bottle", "glass", None}

\* The {action, object, confidence} results of the keyword path.
IntentResults ==
    {[action |-> a, object |-> o,
      confidence |-> (IF a # None THEN 50 ELSE 0) + (IF o # None THEN 50 ELSE 0)] :
        a \in SpokenActions, o \in SpokenObjects}

\* Envelopes get_command returns.
SpeechResults ==
    {get_command(FALSE, r) : r \in IntentResults}
        \cup {get_command(TRUE, r) : r \in IntentResults}

\* start, up to the command loop: the camera opens or start returns.
StartCamera ==
    /\ pc = "created"
    /\ \/ /\ \E size \in FrameSizes : frame_size' = size
          /\ camera_open' = TRUE
          /\ running' = TRUE
          /\ pc' = "loop"
       \/ /\ pc' = "exited"
          /\ UNCHANGED <<camera_open, frame_size, running>>
    /\ UNCHANGED <<raised, calls, ledger_vars, motor_vars>>

\* One pass of the while loop of start.
ProcessCommand ==
    /\ pc = "loop"
    /\ running
    /\ \E speech_result \in SpeechResults :
          /\ (speech_result.status = "success"
                /\ speech_result.data.action \in {"pick", "place"})
               => Len(action_history) < MaxEntries
          /\ process_command(speech_result)
    /\ UNCHANGED <<pc, raised, vision_vars>>

\* Ctrl+C while the loop waits for a command: except KeyboardInterrupt, then
\* the finally clause runs stop.
KeyboardInterrupt ==
    /\ pc = "loop"
    /\ running
    /\ raised' = "KeyboardInterrupt"
    /\ calls' = <<>>
    /\ pc' = "shutdown"
    /\ stop
    /\ UNCHANGED running

\* The loop ends because running is false; the finally clause runs stop.
Shutdown ==
    /\ pc = "loop"
    /\ ~running
    /\ pc' = "shutdown"
    /\ stop
    /\ UNCHANGED <<running, raised, calls>>

Init == LedgerInit(NoFile) /\ AgentsCreated

Next == StartCamera \/ ProcessCommand \/ KeyboardInterrupt \/ Shutdown

Spec == Init /\ [][Next]_vars

-----------------------------------------------------------------------------
(* The ledger driven directly, as by the test block of learning_agent.py.  *)

MaxLedgerLen == 4

LedgerObjects == {"bottle", "cup"}

LedgerInputs ==
    [action : {"pick"}, object : LedgerObjects \cup {None},
     result : {"success", "failure", None}, error : {None}]

LogAny ==
    /\ Len(action_history) < MaxLedgerLen
    /\ \E action_data \in LedgerInputs : log_action(action_data)
    /\ UNCHANGED <<master_vars, vision_vars, motor_vars>>

InitLedger == LedgerInit(NoFile) /\ AgentsCreated

NextLedger == LogAny

SpecLedger == InitLedger /\ [][NextLedger]_vars

-----------------------------------------------------------------------------
(* Runs of the ledger over a log file left by earlier runs.                *)

MaxRunCalls == 11

PickOk == [action |-> "pick", object |-> "bottle", result |-> "success",
           error |-> None]
PickMiss == [action |-> "pick", object |-> "bottle", result |-> "failure",
             error |-> "Object not found"]

FlushInputs == {PickOk, PickMiss}

\* The document an earlier run leaves after logging `inputs` from an empty ledger
\* and saving at the last of them.
RECURSIVE Replay(_)
Replay(inputs) ==
    IF inputs = <<>>
    THEN SavedDocument(<<>>, InitialStats, <<>>)
    ELSE LET prev == Replay(SubSeq(inputs, 1, Len(inputs) - 1))
             log_entry == LogEntry(inputs[Len(inputs)])
         IN  SavedDocument(Append(prev.history, log_entry),
                           UpdateOverall(prev.stats, log_entry),
                           UpdateObjects(prev.object_stats, log_entry))

\* Log files the program itself can have written: it saves only when the
\* history length is a multiple of save_frequency.
PersistedFiles ==
    {NoFile,
     Replay([i \in 1..save_frequency |-> PickOk]),
     Replay([i \in 1..save_frequency |-> IF i % 2 = 0 THEN PickOk ELSE PickMiss])}

LogRun ==
    /\ run_calls < MaxRunCalls
    /\ \E action_data \in FlushInputs : log_action(action_data)
    /\ UNCHANGED <<master_vars, vision_vars, motor_vars>>

InitFlush == (\E file \in PersistedFiles : LedgerInit(file)) /\ AgentsCreated

NextFlush == LogRun

SpecFlush == InitFlush /\ [][NextFlush]_vars

-----------------------------------------------------------------------------
(* The ledger saved and rebuilt over its own log file.                     *)

MaxReloadLen == 3

\* log_action, while fewer than MaxReloadLen entries follow the last multiple
\* of save_frequency.
LogReload ==
    /\ Len(action_history) % save_frequency < MaxReloadLen
    /\ \E action_data \in FlushInputs :
          /\ log_action(action_data)
          /\ calls' = <<Call("log_action", action_data, None)>>
    /\ UNCHANGED <<running, pc, raised, vision_vars, motor_vars>>

\* _save_history called on the ledger as it stands.
Resave ==
    /\ log_file' = SavedDocument(action_history, performance_stats, object_stats)
    /\ calls' = <<Call("_save_history", None, None)>>
    /\ UNCHANGED <<action_history, performance_stats, object_stats, start_file,
                   run_calls, running, pc, raised, vision_vars, motor_vars>>

\* A new LearningAgent built over the log file as it stands.
Reload ==
    /\ action_history' = load_history(log_file).history
    /\ performance_stats' = load_history(log_file).stats
    /\ object_stats' = load_history(log_file).object_stats
    /\ start_file' = log_file
    /\ run_calls' = 0
    /\ calls' = <<Call("__init__", None, None)>>
    /\ UNCHANGED <<log_file, running, pc, raised, vision_vars, motor_vars>>

InitReload == (\E file \in PersistedFiles : LedgerInit(file)) /\ AgentsCreated

NextReload == LogReload \/ Resave \/ Reload

SpecReload == InitReload /\ [][NextReload]_vars

-----------------------------------------------------------------------------
(* Reports asked of the ledger between log_action calls.                   *)

MaxReportCalls == 4

CupMiss == [action |-> "pick", object |-> "cup", result |-> "failure",
            error |-> "Object not found"]

ReportInputs == {PickOk, PickMiss, CupMiss}

\* Log files of ten entries: five failures alternating with successes; seven
\* successes then three failures; four successes then six failures; four
\* failures of cup, then three failures and three successes of bottle.
ReportFiles ==
    {NoFile,
     Replay([i \in 1..save_frequency |-> IF i % 2 = 0 THEN PickOk ELSE PickMiss]),
     Replay([i \in 1..save_frequency |-> IF i <= 7 THEN PickOk ELSE PickMiss]),
     Replay([i \in 1..save_frequency |-> IF i <= 4 THEN PickOk ELSE PickMiss]),
     Replay([i \in 1..save_frequency |->
                IF i <= 4 THEN CupMiss ELSE IF i <= 7 THEN PickMiss ELSE PickOk])}

LogReport ==
    /\ run_calls < MaxReportCalls
    /\ \E action_data \in ReportInputs :
          /\ log_action(action_data)
          /\ calls' = <<Call("log_action", action_data, None)>>
    /\ UNCHANGED <<running, pc, raised, vision_vars, motor_vars>>

GetReport ==
    /\ calls' = <<Call("get_performance_report", None,
                       get_performance_report(performance_stats, object_stats,
                                              action_history))>>
    /\ UNCHANGED <<ledger_vars, running, pc, raised, vision_vars, motor_vars>>

InitReport == (\E file \in ReportFiles : LedgerInit(file)) /\ AgentsCreated

NextReport == LogReport \/ GetReport

SpecReport == InitReport /\ [][NextReport]_vars

-----------------------------------------------------------------------------
(* The vision agent called directly, as by the test block of               *)
(* vision_agent.py, next to pick cycles of the coordinator.                *)

MaxVisionEntries == 1

\* Frame sizes a started camera reports.
VisionFrameSizes == {<<640, 480>>, <<100, 100>>}

\* Detector outputs: those of the pipeline, two bottles of which the later
\* has the higher confidence, and a cup behind a person.
VisionScenes ==
    Scenes \cup
    {<<Box("bottle", 60, 0, 0, 10, 10), Box("bottle", 95, 50, 50, 90, 90)>>,
     <<Box("person", 95, 0, 0, 100, 400), Box("cup", 70, 10, 10, 30, 50)>>}

VisionFrames ==
    {[ok |-> FALSE, boxes |-> <<>>]}
        \cup {[ok |-> TRUE, boxes |-> b] : b \in VisionScenes}

Targets == {"bottle", "Bottle", "glass", "person", "cup"}

\* Boxes whose centre or area lies on or next to a threshold of a 100 x 100
\* frame.
PositionBoxes ==
    {Box("cup", 80, cx - 15, cy - 25, cx + 15, cy + 25) :
        cx \in {32, 33, 65, 66}, cy \in {32, 33, 65, 66}}
    \cup {Box("cup", 80, 0, 0, wh[1], wh[2]) :
            wh \in {<<30, 50>>, <<31, 50>>, <<20, 40>>, <<21, 40>>,
                    <<15, 20>>, <<16, 20>>}}

\* start_camera: the camera opens and reports its frame size, or does not.
VisionStart ==
    /\ ~camera_open
    /\ \/ /\ camera_open' = TRUE
          /\ \E size \in VisionFrameSizes : frame_size' = size
          /\ calls' = <<Call("start_camera", None, TRUE)>>
       \/ /\ calls' = <<Call("start_camera", None, FALSE)>>
          /\ UNCHANGED vision_vars
    /\ UNCHANGED <<ledger_vars, running, pc, raised, motor_vars>>

\* find_object called directly; only an open camera gives a frame.
FindObject ==
    /\ \E target_object \in Targets, frame \in VisionFrames :
          /\ frame.ok => camera_open
          /\ calls' = Append(capture_and_detect(frame),
                 Call("find_object", target_object,
                      find_object(target_object, frame.ok, frame.boxes,
                                  frame_size)))
    /\ UNCHANGED <<ledger_vars, running, pc, raised, vision_vars, motor_vars>>

\* scan_scene called directly.
ScanScene ==
    /\ \E frame \in VisionFrames :
          /\ frame.ok => camera_open
          /\ calls' = Append(capture_and_detect(frame),
                 Call("scan_scene", None, scan_scene(frame.ok, frame.boxes)))
    /\ UNCHANGED <<ledger_vars, running, pc, raised, vision_vars, motor_vars>>

\* estimate_position called directly on a detection, the camera started.
EstimatePosition ==
    /\ camera_open
    /\ \E box \in PositionBoxes :
          calls' = <<Call("estimate_position", Detection(box),
                          estimate_position(Detection(box), frame_size))>>
    /\ UNCHANGED <<ledger_vars, running, pc, raised, vision_vars, motor_vars>>

\* One command cycle of the coordinator for an understood pick.
PickCycle ==
    /\ camera_open
    /\ Len(action_history) < MaxVisionEntries
    /\ \E obj \in {"bottle", "glass"} :
          process_command(get_command(TRUE,
              [action |-> "pick", object |-> obj, confidence |-> 100]))
    /\ UNCHANGED <<pc, raised, vision_vars>>

InitVision == LedgerInit(NoFile) /\ AgentsCreated

NextVision ==
    VisionStart \/ FindObject \/ ScanScene \/ EstimatePosition \/ PickCycle

SpecVision == InitVision /\ [][NextVision]_vars

-----------------------------------------------------------------------------
(* The keyword path of the speech agent called on lowercase utterances.    *)

MaxWords == 2

Vocabulary ==
    {"pick", "place", "move", "show", "stop", "forget", "settle", "cancel",
     "open", "the", "bottle", "cup", "glass"}

\* Utterances of up to MaxWords words.
Utterances == UNION {[1..n -> Vocabulary] : n \in 0..MaxWords}

\* The text of an utterance: its words joined by single spaces.
RECURSIVE Text(_)
Text(words) ==
    IF words = <<>> THEN <<>>
    ELSE IF Len(words) = 1 THEN Chars(words[1])
    ELSE Chars(Head(words)) \o <<" ">> \o Text(Tail(words))

\* listen gives the lowercase text of an utterance, recorded by its words.
\* One utterance per run: extract_keywords keeps nothing between calls.
Listen ==
    /\ calls = <<>>
    /\ \E words \in Utterances : calls' = <<Call("listen", None, words)>>
    /\ UNCHANGED <<ledger_vars, running, pc, raised, vision_vars, motor_vars>>

\* extract_keywords called on the text listen gave.
ExtractKeywords ==
    /\ Len(calls) = 1
    /\ calls[1].fn = "listen"
    /\ calls' = Append(calls,
           Call("extract_keywords", calls[1].ret,
                extract_keywords(Text(calls[1].ret))))
    /\ UNCHANGED <<ledger_vars, running, pc, raised, vision_vars, motor_vars>>

InitSpeech == LedgerInit(NoFile) /\ AgentsCreated

NextSpeech == Listen \/ ExtractKeywords

SpecSpeech == InitSpeech /\ [][NextSpeech]_vars

-----------------------------------------------------------------------------
(* get_command with the delegated extractor: agents/speech_agent.py        *)

\* SPEECH_CONFIG["confidence_threshold"], in hundredths.
confidence_threshold == 70

IntentKeys == {"action", "object", "confidence"}

\* A value json.loads or extract_keywords gives: a dict with the keys in
\* `keys` (the other fields are then not read), or a value of another type.
Dict(keys, action, obj, confidence) ==
    [type |-> "dict", keys |-> keys, action |-> action, object |-> obj,
     confidence |-> confidence]

NotADict == [type |-> "list", keys |-> {}, action |-> None, object |-> None,
             confidence |-> 0]

\* dict.get(key, default)
DictGet(d, key, default) == IF key \in d.keys THEN d[key] ELSE default

\* What extract_with_gemini returns from its except clause.
GeminiFailed == Dict(IntentKeys, None, None, 0)

\* result_text.replace("```json", "").replace("```", "").strip(): the fences
\* around the body are gone.
clean(response) == [response EXCEPT !.fenced = FALSE]

\* json.loads: raises on a fenced text and on a body that is not JSON, gives
\* a dict for a JSON object and a list for a JSON array.
json_loads(text) ==
    IF text.fenced \/ text.kind = "garbage"
    THEN [raises |-> TRUE, value |-> NotADict]
    ELSE IF text.kind = "array"
    THEN [raises |-> FALSE, value |-> NotADict]
    ELSE [raises |-> FALSE,
          value |-> Dict(text.keys, text.action, text.object, text.confidence)]

extract_with_gemini_GuessesPick(response) ==
    LET parsed == json_loads(clean(response))
    IN  IF response.raises \/ parsed.raises
        THEN Dict(IntentKeys, "pick", None, 0)
        ELSE parsed.value

\* SpeechAgent.extract_with_gemini, given what generate_content does: it
\* raises, or gives a text.
extract_with_gemini(response) ==
    LET parsed == json_loads(clean(response))
    IN  IF response.raises \/ parsed.raises
        THEN GeminiFailed
        ELSE parsed.value

\* Steps 2 to 4 of get_command: what it returns for a text, or the exception
\* that leaves it when the result has no get method.
IntentOf(result) ==
    IF result.type # "dict"
    THEN [raised |-> "AttributeError"]
    ELSE get_command(TRUE, [action |-> DictGet(result, "action", None),
                            object |-> DictGet(result, "object", None),
                            confidence |-> DictGet(result, "confidence", 0)])

get_command_calls_Merged(listened, use_gemini, response) ==
    LET text == Text(listened.words)
        keyword_result == extract_keywords(text)
        needed == keyword_result.confidence < confidence_threshold /\ use_gemini
        gemini_result == extract_with_gemini(response)
        merged == [gemini_result EXCEPT
                      !.object = IF DictGet(gemini_result, "object", None) = None
                                 THEN keyword_result.object ELSE @,
                      !.keys = @ \cup {"object"}]
        result == IF needed THEN merged
                  ELSE Dict(IntentKeys, keyword_result.action,
                            keyword_result.object, keyword_result.confidence)
        settings == [use_gemini |-> use_gemini]
    IN  IF ~listened.heard \/ text = <<>>
        THEN <<Call("listen", None, listened),
               Call("get_command", settings, get_command(FALSE, None))>>
        ELSE <<Call("listen", None, listened),
               Call("extract_keywords", listened.words, keyword_result)>>
             \o (IF needed
                 THEN <<Call("generate_content", listened.words, response),
                        Call("extract_with_gemini", listened.words, gemini_result)>>
                 ELSE <<>>)
             \o <<Call("get_command", settings, IntentOf(result))>>

\* SpeechAgent.get_command with the calls it makes, in order; the last is
\* get_command itself, its arg the use_gemini of the agent.  `listened` is
\* what listen gives, `response` what generate_content does if it is called.
get_command_calls(listened, use_gemini, response) ==
    LET text == Text(listened.words)
        keyword_result == extract_keywords(text)
        needed == keyword_result.confidence < confidence_threshold /\ use_gemini
        gemini_result == extract_with_gemini(response)
        result == IF needed THEN gemini_result
                  ELSE Dict(IntentKeys, keyword_result.action,
                            keyword_result.object, keyword_result.confidence)
        settings == [use_gemini |-> use_gemini]
    IN  IF ~listened.heard \/ text = <<>>
        THEN <<Call("listen", None, listened),
               Call("get_command", settings, get_command(FALSE, None))>>
        ELSE <<Call("listen", None, listened),
               Call("extract_keywords", listened.words, keyword_result)>>
             \o (IF needed
                 THEN <<Call("generate_content", listened.words, response),
                        Call("extract_with_gemini", listened.words, gemini_result)>>
                 ELSE <<>>)
             \o <<Call("get_command", settings, IntentOf(result))>>

-----------------------------------------------------------------------------
(* Command cycles in which get_command runs in full.                       *)

MaxIntentEntries == 1

\* What listen gives: None, or the lowercase text of an utterance.
Listened ==
    {[heard |-> FALSE, words |-> <<>>]}
        \cup {[heard |-> TRUE, words |-> w] :
                w \in {<<>>, <<"the">>, <<"pick">>, <<"bottle">>, <<"show">>,
                       <<"pick", "bottle">>, <<"place", "cup">>}}

Response(raises, fenced, kind, keys, action, obj, confidence) ==
    [raises |-> raises, fenced |-> fenced, kind |-> kind, keys |-> keys,
     action |-> action, object |-> obj, confidence |-> confidence]

\* What generate_content does: it raises; or it gives a text, fenced or not,
\* that is no JSON, a JSON array, or a JSON object with some of the keys.
Responses ==
    {Response(TRUE, FALSE, "garbage", {}, None, None, 0),
     Response(FALSE, FALSE, "garbage", {}, None, None, 0),
     Response(FALSE, TRUE, "garbage", {}, None, None, 0),
     Response(FALSE, FALSE, "array", {}, None, None, 0),
     Response(FALSE, FALSE, "object", {}, None, None, 0),
     Response(FALSE, TRUE, "object", IntentKeys, "pick", "cup", 90),
     Response(FALSE, FALSE, "object", IntentKeys, "pick", "cup", 90),
     Response(FALSE, FALSE, "object", IntentKeys, "place", None, 30),
     Response(FALSE, FALSE, "object", IntentKeys, None, "cup", 80),
     Response(FALSE, FALSE, "object", {"action", "object"}, "stop", None, 0),
     Response(FALSE, TRUE, "object", IntentKeys, "grab", "bottle", 90)}

\* The response used when generate_content is not called.
NoResponse == Response(TRUE, FALSE, "garbage", {}, None, None, 0)

\* get_command has returned and _process_command has not yet gone on.
CommandPending ==
    /\ calls # <<>>
    /\ calls[1].fn = "listen"
    /\ calls[Len(calls)].fn = "get_command"

\* _process_command up to the return of get_command.
GetCommand ==
    /\ pc = "loop"
    /\ running
    /\ ~CommandPending
    /\ \E listened \in Listened, use_gemini \in BOOLEAN :
          LET keyword_result == extract_keywords(Text(listened.words))
              needed == /\ listened.heard
                        /\ listened.words # <<>>
                        /\ keyword_result.confidence < confidence_threshold
                        /\ use_gemini
          IN  \E response \in IF needed THEN Responses ELSE {NoResponse} :
                  calls' = get_command_calls(listened, use_gemini, response)
    /\ UNCHANGED <<ledger_vars, running, pc, raised, vision_vars, motor_vars>>

\* _process_command from the return of get_command on.
Dispatch ==
    /\ CommandPending
    /\ "status" \in DOMAIN calls[Len(calls)].ret
    /\ LET speech_result == calls[Len(calls)].ret
       IN  /\ (speech_result.status = "success"
                 /\ speech_result.data.action \in {"pick", "place"})
                => Len(action_history) < MaxIntentEntries
           /\ process_command(speech_result)
    /\ UNCHANGED <<pc, raised, vision_vars>>

\* The exception of get_command leaves _process_command and the loop of
\* start, whose finally clause runs stop.
CommandRaises ==
    /\ CommandPending
    /\ "raised" \in DOMAIN calls[Len(calls)].ret
    /\ raised' = calls[Len(calls)].ret.raised
    /\ calls' = <<>>
    /\ pc' = "shutdown"
    /\ stop
    /\ UNCHANGED running

NextIntent ==
    StartCamera \/ GetCommand \/ Dispatch \/ CommandRaises \/ Shutdown

SpecIntent == Init /\ [][NextIntent]_vars

-----------------------------------------------------------------------------
(* A caller of the ledger that keeps the report it was given.              *)

MaxHeldCalls == 3

\* The report a caller holds: its overall_performance and object_performance
\* are the dicts of the ledger themselves, which _update_stats changes in
\* place, so after a log_action they read as the ledger then stands.
HeldAfterLog(call) ==
    [call EXCEPT !.ret.data.overall_performance = performance_stats',
                 !.ret.data.object_performance = object_stats']

\* log_action; a report returned by the call before stays with the caller.
LogHeld ==
    /\ run_calls < MaxHeldCalls
    /\ \E action_data \in ReportInputs :
          /\ log_action(action_data)
          /\ calls' = IF calls # <<>> /\ calls[1].fn = "get_performance_report"
                       THEN <<HeldAfterLog(calls[1]),
                              Call("log_action", action_data, None)>>
                       ELSE <<Call("log_action", action_data, None)>>
    /\ UNCHANGED <<running, pc, raised, vision_vars, motor_vars>>

InitHeld == (\E file \in ReportFiles : LedgerInit(file)) /\ AgentsCreated

NextHeld == LogHeld \/ GetReport \/ Resave

SpecHeld == InitHeld /\ [][NextHeld]_vars

-----------------------------------------------------------------------------
(* Long runs of the ledger over log files of any length.                   *)

MaxBacklogCalls == 12

\* Log files of 7 and of 15 entries, as a run with another save_frequency
\* leaves them, next to those of PersistedFiles.
BacklogFiles ==
    PersistedFiles
        \cup {Replay([i \in 1..7 |-> PickOk]),
              Replay([i \in 1..15 |-> IF i % 2 = 0 THEN PickOk ELSE PickMiss])}

LogBacklog ==
    /\ run_calls < MaxBacklogCalls
    /\ \E action_data \in FlushInputs :
          /\ log_action(action_data)
          /\ calls' = <<Call("log_action", action_data, None)>>
    /\ UNCHANGED <<running, pc, raised, vision_vars, motor_vars>>

InitBacklog == (\E file \in BacklogFiles : LedgerInit(file)) /\ AgentsCreated

NextBacklog == LogBacklog

SpecBacklog == InitBacklog /\ [][NextBacklog]_vars

-----------------------------------------------------------------------------
(* The motor agent called directly, as by the test block of                *)
(* motor_control_agent.py.                                                 *)

\* Payloads of find_object for objects at four places of a 100 x 100 frame.
ObjectInfos ==
    {[found |-> TRUE, object |-> Detection(box),
      position |-> estimate_position(Detection(box), <<100, 100>>)] :
        box \in {Box("bottle", 90, 0, 0, 10, 10),
                 Box("cup", 70, 40, 40, 60, 60),
                 Box("bottle", 60, 60, 60, 100, 100),
                 Box("cup", 80, 70, 0, 90, 20)}}

PlaceTargets ==
    {DefaultPlacePosition} \cup {info.position : info \in ObjectInfos}

\* The completed steps of a choreography as calls.
StepCalls(order, fault) ==
    [k \in 1..Len(StepsDone(order, fault)) |->
        Call(StepsDone(order, fault)[k], None, None)]

\* pick_object called on the arm as it stands.
PickObject ==
    /\ \E object_info \in ObjectInfos, fault \in 0..PickSteps :
          LET picked == pick_object(MotorState(current_position, gripper_open),
                                    object_info, fault)
          IN  /\ current_position' = picked.motor.current_position
              /\ gripper_open' = picked.motor.gripper_open
              /\ calls' = Append(StepCalls(PickOrder, fault),
                     Call("pick_object", object_info, picked.envelope))
    /\ UNCHANGED <<ledger_vars, running, pc, raised, vision_vars>>

\* place_object called on the arm as it stands.
PlaceObject ==
    /\ \E target_position \in PlaceTargets, fault \in 0..PlaceSteps :
          LET placed == place_object(MotorState(current_position, gripper_open),
                                     target_position, fault)
          IN  /\ current_position' = placed.motor.current_position
              /\ gripper_open' = placed.motor.gripper_open
              /\ calls' = Append(StepCalls(PlaceOrder, fault),
                     Call("place_object", target_position, placed.envelope))
    /\ UNCHANGED <<ledger_vars, running, pc, raised, vision_vars>>

NextMotor == PickObject \/ PlaceObject

SpecMotor == Init /\ [][NextMotor]_vars

-----------------------------------------------------------------------------
(* Claims about the ledger.                                                *)

\* The stored rate is successes / attempts * 100, and 0 for no attempts.
RateIs(rate, successes, attempts) ==
    IF attempts = 0
    THEN rate[1] = 0
    ELSE rate[2] > 0 /\ rate[1] * attempts = 100 * successes * rate[2]

\* C1: after any sequence of log_action calls the overall success_rate is
\* successful_actions / total_actions * 100 (0 for no actions) and every
\* object's success_rate is its successes / attempts * 100.
C1_SuccessRateRecomputed ==
    /\ RateIs(performance_stats.success_rate,
              performance_stats.successful_actions,
              performance_stats.total_actions)
    /\ \A i \in 1..Len(object_stats) :
          RateIs(object_stats[i].success_rate, object_stats[i].successes,
                 object_stats[i].attempts)

\* Overall 2 of 3 while bottle stands at 1 of 2.
C1_Witness ==
    /\ performance_stats.total_actions = 3
    /\ performance_stats.success_rate = <<200, 3>>
    /\ \E i \in 1..Len(object_stats) :
          /\ object_stats[i].name = "bottle"
          /\ object_stats[i].attempts = 2
          /\ object_stats[i].success_rate = <<50, 1>>

\* Number of history entries for which Test holds.
CountEntries(Test(_)) ==
    Cardinality({i \in 1..Len(action_history) : Test(action_history[i])})

\* C2: from an empty ledger, the overall counters count the logged entries,
\* the successes and the failures, and each object's counters count the
\* entries logged for that object.
C2_CountersCountEntries ==
    /\ performance_stats.total_actions = Len(action_history)
    /\ performance_stats.successful_actions
          = CountEntries(LAMBDA e : e.result = "success")
    /\ performance_stats.failed_actions
          = CountEntries(LAMBDA e : e.result = "failure")
    /\ \A obj \in LedgerObjects :
          LET i == ObjIndex(object_stats, obj)
              logged == CountEntries(LAMBDA e : e.object = obj)
          IN  IF logged = 0
              THEN i = 0
              ELSE /\ i # 0
                   /\ object_stats[i].attempts = logged
                   /\ object_stats[i].successes = CountEntries(
                         LAMBDA e : e.object = obj /\ e.result = "success")
                   /\ object_stats[i].failures = CountEntries(
                         LAMBDA e : e.object = obj /\ e.result = "failure")

\* bottle-success, cup-success, bottle-failure: overall 3/2/1, bottle 2/1/1.
C2_Witness ==
    /\ Len(action_history) = 3
    /\ action_history[1].object = "bottle" /\ action_history[1].result = "success"
    /\ action_history[2].object = "cup" /\ action_history[2].result = "success"
    /\ action_history[3].object = "bottle" /\ action_history[3].result = "failure"
    /\ performance_stats.total_actions = 3
    /\ performance_stats.successful_actions = 2
    /\ performance_stats.failed_actions = 1
    /\ object_stats[ObjIndex(object_stats, "bottle")].attempts = 2
    /\ object_stats[ObjIndex(object_stats, "bottle")].successes = 1

-----------------------------------------------------------------------------
(* Claims about the recommendations of a report.                           *)

\* The latest call was get_performance_report; the ledger is as it was then.
Reported == calls # <<>> /\ calls[1].fn = "get_performance_report"

\* The recommendation list of the latest report.
Recs == calls[1].ret.data.recommendations

Has(recs, r) == \E i \in 1..Len(recs) : recs[i] = r

Count(recs, set) == Cardinality({i \in 1..Len(recs) : recs[i] \in set})

OverallMessages == {LowRate, ModerateRate, GoodRate}

\* C13: every recommendation list holds exactly one overall message: the low
\* warning for a success_rate below 50, the moderate warning for a rate of at
\* least 50 and below 70, the good message for a rate of 70 or more.
C13_OneOverallMessage ==
    Reported =>
        LET s == performance_stats.successful_actions
            t == performance_stats.total_actions
            expected == IF t = 0 \/ 100 * s < 50 * t THEN LowRate
                        ELSE IF 100 * s < 70 * t THEN ModerateRate
                        ELSE GoodRate
        IN  /\ Count(Recs, OverallMessages) = 1
            /\ Has(Recs, expected)

\* A rate of exactly 50 is reported as moderate.
C13_Witness ==
    /\ Reported
    /\ performance_stats.total_actions = 10
    /\ performance_stats.successful_actions = 5
    /\ Has(Recs, ModerateRate)

ReportObjects == {"bottle", "cup"}

\* Attempts and successes of obj in object_stats, 0 for an object never logged.
AttemptsOf(obj) ==
    IF ObjIndex(object_stats, obj) = 0 THEN 0
    ELSE object_stats[ObjIndex(object_stats, obj)].attempts

SuccessesOf(obj) ==
    IF ObjIndex(object_stats, obj) = 0 THEN 0
    ELSE object_stats[ObjIndex(object_stats, obj)].successes

\* C14 as stated: the list holds the difficulty warning of an object exactly
\* when the object has at least 3 attempts and a success_rate below 50.
C14_WarnsFromThreeAttempts ==
    Reported =>
        \A obj \in ReportObjects :
            Has(Recs, Difficulty(obj))
                <=> (AttemptsOf(obj) >= 3
                     /\ 100 * SuccessesOf(obj) < 50 * AttemptsOf(obj))

\* C14, amended: the list holds the difficulty warning of an object exactly
\* when the object has more than 3 attempts and a success_rate below 50.
C14_WarnsAboveThreeAttempts ==
    Reported =>
        \A obj \in ReportObjects :
            Has(Recs, Difficulty(obj))
                <=> (AttemptsOf(obj) > 3
                     /\ 100 * SuccessesOf(obj) < 50 * AttemptsOf(obj))

\* cup, failed at each of its four attempts, is warned about; bottle, with
\* six attempts of which three succeeded, is not.
C14_Witness ==
    /\ Reported
    /\ AttemptsOf("cup") = 4 /\ SuccessesOf("cup") = 0
    /\ AttemptsOf("bottle") = 6 /\ SuccessesOf("bottle") = 3
    /\ Has(Recs, Difficulty("cup"))
    /\ ~Has(Recs, Difficulty("bottle"))

\* Failures among the last ten entries of the history (all of them when there
\* are fewer than ten).
RecentFailures ==
    Cardinality({i \in 1..Len(action_history) :
                    /\ i > Len(action_history) - 10
                    /\ action_history[i].result = "failure"})

\* C15: the list holds the maintenance warning exactly when at least 5 of the
\* last 10 history entries (all entries when fewer than 10 exist) are
\* failures; after 10 logged picks of which 6 failed the warning is there.
C15_MaintenanceOnRecentFailures ==
    Reported =>
        /\ Has(Recs, Maintenance) <=> RecentFailures >= 5
        /\ (Len(action_history) = 10 /\ performance_stats.failed_actions = 6)
              => Has(Recs, Maintenance)

\* Ten picks, six of them failures, and the warning.
C15_Witness ==
    /\ Reported
    /\ Len(action_history) = 10
    /\ \A i \in 1..10 : action_history[i].action = "pick"
    /\ performance_stats.failed_actions = 6
    /\ RecentFailures = 6
    /\ Has(Recs, Maintenance)

\* Position of r in recs, 0 if absent.
PosOf(recs, r) ==
    IF Has(recs, r) THEN CHOOSE i \in 1..Len(recs) : recs[i] = r ELSE 0

\* C16: in every recommendation list the overall message is first, the
\* difficulty warnings follow in the order in which their objects were first
\* logged, and the maintenance warning, when present, is last.
C16_RuleOrder ==
    Reported =>
        /\ Recs[1] \in OverallMessages
        /\ \A i \in 2..Len(Recs) : Recs[i] \notin OverallMessages
        /\ \A a, b \in ReportObjects :
              (/\ Has(Recs, Difficulty(a)) /\ Has(Recs, Difficulty(b))
               /\ ObjIndex(object_stats, a) < ObjIndex(object_stats, b))
                  => PosOf(Recs, Difficulty(a)) < PosOf(Recs, Difficulty(b))
        /\ Has(Recs, Maintenance) =>
              /\ Recs[Len(Recs)] = Maintenance
              /\ Count(Recs, {Maintenance}) = 1

\* All three families at once: low rate, cup (logged first) before bottle,
\* then maintenance.
C16_Witness ==
    /\ Reported
    /\ Recs = <<LowRate, Difficulty("cup"), Difficulty("bottle"), Maintenance>>
    /\ ObjIndex(object_stats, "cup") = 1
    /\ ObjIndex(object_stats, "bottle") = 2

-----------------------------------------------------------------------------
(* Claims about the coordinator.                                           *)

\* A step that is one whole command cycle; calls' is then what the cycle did.
CycleStep == pc = "loop" /\ running /\ pc' = "loop"

\* The cycle whose calls are c got a success envelope with this action.
Understood(c, action) ==
    /\ c # <<>>
    /\ c[1].ret.status = "success"
    /\ c[1].ret.data.action = action

\* The object the cycle whose calls are c was asked for.
Spoken(c) == c[1].ret.data.object

\* after is before with exactly the one entry appended.
Appended(before, after, entry) ==
    /\ Len(after) = Len(before) + 1
    /\ SubSeq(after, 1, Len(before)) = before
    /\ after[Len(after)] = entry

\* The number of calls of fn among the calls c.
CallsOf(c, fn) == Cardinality({k \in 1..Len(c) : c[k].fn = fn})

FoundIn(vision_result) ==
    /\ vision_result.status = "success"
    /\ "found" \in DOMAIN vision_result.data
    /\ vision_result.data.found = TRUE

\* C4: when find_object returns a non-success envelope or no found flag that
\* is true, the cycle logs exactly one entry, pick / the requested object /
\* failure / "Object not found", and does not call pick_object.
C4_NotFoundLogsFailure ==
    [][CycleStep =>
        \A k \in 1..Len(calls') :
            (calls'[k].fn = "find_object" /\ ~FoundIn(calls'[k].ret)) =>
                /\ Understood(calls', "pick")
                /\ calls'[k].arg = Spoken(calls')
                /\ Len(calls') = k + 1
                /\ calls'[k + 1].fn = "log_action"
                /\ CallsOf(calls', "log_action") = 1
                /\ CallsOf(calls', "pick_object") = 0
                /\ Appended(action_history, action_history',
                            [action |-> "pick", object |-> Spoken(calls'),
                             result |-> "failure",
                             error |-> "Object not found"])
                /\ UNCHANGED motor_vars]_vars

\* A pick that found nothing, once with the camera down and once with a frame.
C4_Witness ==
    /\ Len(action_history) = 2
    /\ Len(calls) = 3
    /\ calls[2].fn = "find_object"
    /\ calls[2].ret.data = [found |-> FALSE, target |-> "glass", total_objects |-> 2]
    /\ action_history[2].error = "Object not found"
    /\ action_history[2].object = "glass"
    /\ action_history[1].error = "Object not found"

\* C5: when the object was found, pick_object is called and exactly one entry
\* is logged after it returns: success for a success envelope, otherwise
\* failure with the error string of the actuation envelope.
C5_FoundLogsActuationOutcome ==
    [][CycleStep =>
        \A k \in 1..Len(calls') :
            (calls'[k].fn = "find_object" /\ FoundIn(calls'[k].ret)) =>
                /\ Len(calls') = k + 2
                /\ calls'[k + 1].fn = "pick_object"
                /\ calls'[k + 1].arg = calls'[k].ret.data
                /\ calls'[k + 2].fn = "log_action"
                /\ CallsOf(calls', "log_action") = 1
                /\ Appended(action_history, action_history',
                        IF calls'[k + 1].ret.status = "success"
                        THEN [action |-> "pick", object |-> Spoken(calls'),
                              result |-> "success", error |-> None]
                        ELSE [action |-> "pick", object |-> Spoken(calls'),
                              result |-> "failure",
                              error |-> calls'[k + 1].ret.data.error])]_vars

\* A found object whose pick failed, logged with the actuation error.
C5_Witness ==
    /\ Len(calls) = 4
    /\ calls[3].fn = "pick_object"
    /\ calls[3].ret.status = "error"
    /\ action_history # <<>>
    /\ action_history[Len(action_history)].result = "failure"
    /\ action_history[Len(action_history)].error = FaultText

\* C6: when get_command returns a non-success envelope the cycle calls no
\* other service, appends nothing to the ledger and leaves the coordinator
\* running in its loop.
C6_FailedIntentAborts ==
    [][(CycleStep /\ calls'[1].ret.status # "success") =>
        /\ calls' = <<calls'[1]>>
        /\ calls'[1].fn = "get_command"
        /\ UNCHANGED <<action_history, performance_stats, object_stats, log_file>>
        /\ UNCHANGED motor_vars
        /\ running'
        /\ pc' = "loop"]_vars

\* A failed intent after an entry was logged, the loop still running.
C6_Witness ==
    /\ pc = "loop"
    /\ running
    /\ Len(calls) = 1
    /\ calls[1].ret.status = "error"
    /\ Len(action_history) = 1

\* C7: a place command calls place_object once with the default target
\* (center, middle, close) and then logs one entry: place, the spoken object
\* or "unknown", success or failure by the status of the actuation envelope.
C7_PlaceLogsOnce ==
    [][(CycleStep /\ Understood(calls', "place")) =>
        /\ Len(calls') = 3
        /\ calls'[2].fn = "place_object"
        /\ calls'[2].arg = [horizontal |-> "center", vertical |-> "middle",
                            depth |-> "close"]
        /\ calls'[3].fn = "log_action"
        /\ Len(action_history') = Len(action_history) + 1
        /\ SubSeq(action_history', 1, Len(action_history)) = action_history
        /\ LET entry == action_history'[Len(action_history')]
           IN  /\ entry.action = "place"
               /\ entry.object = IF Truthy(Spoken(calls')) THEN Spoken(calls')
                                 ELSE "unknown"
               /\ entry.result = IF calls'[2].ret.status = "success"
                                 THEN "success" ELSE "failure"]_vars

\* A place without an object that failed, logged as unknown / failure.
C7_Witness ==
    /\ Understood(calls, "place")
    /\ Spoken(calls) = None
    /\ calls[2].ret.status = "error"
    /\ action_history # <<>>
    /\ action_history[Len(action_history)].object = "unknown"
    /\ action_history[Len(action_history)].result = "failure"
    /\ action_history[Len(action_history)].action = "place"

\* The latest cycle dispatched a stop.
StopDispatched == Len(calls) = 2 /\ calls[2].fn = "motor_stop"

\* C8: a stop command calls the actuation service's stop and clears the
\* running flag, and afterwards no cycle starts: no further service call,
\* no motion and no ledger append.
C8_StopEndsCycles ==
    /\ [](Understood(calls, "stop") => (StopDispatched /\ ~running))
    /\ [][(~running /\ pc \in {"loop", "shutdown"}) =>
            /\ calls' = calls
            /\ UNCHANGED <<action_history, performance_stats, object_stats>>
            /\ UNCHANGED motor_vars
            /\ ~running']_vars

\* Shut down after a stop that followed a logged action.
C8_Witness ==
    /\ pc = "shutdown"
    /\ ~running
    /\ StopDispatched
    /\ Len(action_history) >= 1

\* C9 as stated: the loop is left and the coordinator shut down only after a
\* stop action was dispatched.
C9_ShutdownOnlyByStop == pc = "shutdown" => StopDispatched

\* C9 amended: the loop is left and the coordinator shut down only after a
\* stop action was dispatched or after a KeyboardInterrupt was raised in the
\* loop; no other command outcome clears the running flag.
C9_ShutdownByStopOrInterrupt ==
    /\ pc = "shutdown" => (StopDispatched \/ raised = "KeyboardInterrupt")
    /\ (pc = "shutdown" /\ raised = None) => ~running
    /\ (pc \in {"loop", "shutdown"} /\ ~running) => StopDispatched

\* Shut down by Ctrl+C after other commands, no stop dispatched.
C9_Witness ==
    /\ pc = "shutdown"
    /\ raised = "KeyboardInterrupt"
    /\ running
    /\ Len(action_history) >= 1

-----------------------------------------------------------------------------
(* Claims about the vision agent.                                          *)

\* The latest calls are a direct call of fn that got a frame.
DirectWithFrame(fn) ==
    /\ Len(calls) = 3
    /\ calls[1].fn = "capture_frame"
    /\ calls[1].ret.ok
    /\ calls[3].fn = fn

\* The boxes of the detector output that are graspable and whose class name
\* contains name, case ignored.
Candidates(boxes, name) ==
    {i \in 1..Len(boxes) :
        /\ boxes[i].class_name \in GRASPABLE_OBJECTS
        /\ IsSubstring(Lower(Chars(name)), Lower(Chars(boxes[i].class_name)))}

\* C17: find_object(name) returns the first detection, in detector output
\* order, that is graspable and whose class name contains name, case ignored,
\* whatever the confidences of later candidates; it reports found false with
\* status error exactly when there is no such detection.
C17_FirstGraspableMatch ==
    DirectWithFrame("find_object") =>
        LET boxes == calls[1].ret.boxes
            hits == Candidates(boxes, calls[3].arg)
            envelope == calls[3].ret
        IN  /\ hits # {} =>
                  /\ envelope.status = "success"
                  /\ envelope.data.found
                  /\ \E i \in hits :
                        /\ \A j \in hits : i <= j
                        /\ envelope.data.object = Detection(boxes[i])
            /\ hits = {} <=>
                  /\ envelope.status = "error"
                  /\ ~envelope.data.found

\* Asked for "Bottle" over two bottles, the first is returned although the
\* second has the higher confidence.
C17_Witness ==
    /\ DirectWithFrame("find_object")
    /\ calls[3].arg = "Bottle"
    /\ Len(calls[1].ret.boxes) = 2
    /\ calls[1].ret.boxes[2].class_name = "bottle"
    /\ calls[1].ret.boxes[2].confidence = 95
    /\ calls[3].ret.data.found
    /\ calls[3].ret.data.object.confidence = 60

\* C18: without a frame, find_object and scan_scene return an envelope of
\* status error whose payload has no found key that is true, call no
\* detection and leave the ledger alone; the pick handling of the
\* coordinator, given that envelope by find_object, logs the failure entry.
C18_CameraUnavailable ==
    [][/\ (/\ calls' # <<>>
           /\ calls'[1].fn = "capture_frame"
           /\ ~calls'[1].ret.ok)
          => LET last == calls'[Len(calls')]
             IN  /\ last.fn \in {"find_object", "scan_scene"}
                 /\ last.ret.status = "error"
                 /\ ~("found" \in DOMAIN last.ret.data /\ last.ret.data.found)
                 /\ CallsOf(calls', "detect_objects") = 0
                 /\ UNCHANGED ledger_vars
       /\ (/\ Len(calls') >= 2
           /\ calls'[1].fn = "get_command"
           /\ calls'[2].fn = "find_object"
           /\ calls'[2].ret.data = [error |-> "Camera not available"])
          => /\ action_history'
                  = Append(action_history, LogEntry(PickNotFound(calls'[2].arg)))
             /\ CallsOf(calls', "log_action") = 1]_vars

\* find_object("bottle") called directly on a camera that was never started:
\* the error envelope, and nothing in the ledger.
C18_Witness ==
    /\ ~camera_open
    /\ Len(calls) = 2
    /\ calls[1].fn = "capture_frame"
    /\ calls[2].fn = "find_object"
    /\ calls[2].arg = "bottle"
    /\ calls[2].ret.status = "error"
    /\ calls[2].ret.data = [error |-> "Camera not available"]
    /\ action_history = <<>>
    /\ ~log_file.exists

\* C19: estimate_position changes no state and its result is decided by the
\* box and the frame size: left below 0.33 of the width, center from 0.33
\* and below 0.66, right from 0.66 (top, middle, bottom likewise by the
\* height); very_close for an area ratio above 0.15, close above 0.08,
\* medium above 0.03, far otherwise.
C19_PositionByThresholds ==
    [][(calls' # <<>> /\ calls'[1].fn = "estimate_position")
       => LET bbox == calls'[1].arg.bbox
              position == calls'[1].ret
              cx == (bbox.x1 + bbox.x2) \div 2
              cy == (bbox.y1 + bbox.y2) \div 2
              area == (bbox.x2 - bbox.x1) * (bbox.y2 - bbox.y1)
              width == frame_size[1]
              height == frame_size[2]
          IN  /\ UNCHANGED <<ledger_vars, vision_vars, motor_vars, running, pc,
                             raised>>
              /\ position.horizontal = "left" <=> 100 * cx < 33 * width
              /\ position.horizontal = "center"
                    <=> (33 * width <= 100 * cx /\ 100 * cx < 66 * width)
              /\ position.horizontal = "right" <=> 66 * width <= 100 * cx
              /\ position.vertical = "top" <=> 100 * cy < 33 * height
              /\ position.vertical = "middle"
                    <=> (33 * height <= 100 * cy /\ 100 * cy < 66 * height)
              /\ position.vertical = "bottom" <=> 66 * height <= 100 * cy
              /\ position.depth = "very_close"
                    <=> 100 * area > 15 * width * height
              /\ position.depth = "close"
                    <=> (100 * area <= 15 * width * height
                         /\ 100 * area > 8 * width * height)
              /\ position.depth = "medium"
                    <=> (100 * area <= 8 * width * height
                         /\ 100 * area > 3 * width * height)
              /\ position.depth = "far" <=> 100 * area <= 3 * width * height]_vars

\* In a 100 x 100 frame a box centred at (33, 66) of area 1500 is center,
\* bottom and close.
C19_Witness ==
    /\ frame_size = <<100, 100>>
    /\ Len(calls) = 1
    /\ calls[1].fn = "estimate_position"
    /\ calls[1].arg.bbox.center_x = 33
    /\ calls[1].arg.bbox.center_y = 66
    /\ calls[1].arg.bbox.width * calls[1].arg.bbox.height = 1500
    /\ calls[1].ret.horizontal = "center"
    /\ calls[1].ret.vertical = "bottom"
    /\ calls[1].ret.depth = "close"

-----------------------------------------------------------------------------
(* Claims about the speech agent.                                          *)

\* Some synonym of the k-th category occurs in text.
CategoryIn(k, text) ==
    \E n \in 1..Len(action_keywords[k].keywords) :
        IsSubstring(Chars(action_keywords[k].keywords[n]), text)

\* The k-th known object occurs in text.
ObjectIn(k, text) == IsSubstring(Chars(known_objects[k]), text)

\* C20: extract_keywords returns as action the first category, in the order
\* pick, place, move, show, stop, of which a synonym occurs in the utterance,
\* and None when there is none; as object the first known object, in list
\* order, that occurs in it, and None when there is none; the confidence is
\* 0.5 for an action plus 0.5 for an object, so 0, 0.5 or 1.0.
C20_FirstCategoryFirstObject ==
    (Len(calls) = 2 /\ calls[2].fn = "extract_keywords") =>
        LET text == Text(calls[2].arg)
            result == calls[2].ret
            order == <<"pick", "place", "move", "show", "stop">>
        IN  /\ \A k \in 1..5 :
                  result.action = order[k]
                      <=> (/\ action_keywords[k].action = order[k]
                           /\ CategoryIn(k, text)
                           /\ \A j \in 1..(k - 1) : ~CategoryIn(j, text))
            /\ result.action = None <=> \A k \in 1..5 : ~CategoryIn(k, text)
            /\ \A k \in 1..Len(known_objects) :
                  result.object = known_objects[k]
                      <=> (ObjectIn(k, text)
                           /\ \A j \in 1..(k - 1) : ~ObjectIn(j, text))
            /\ result.object = None
                  <=> \A k \in 1..Len(known_objects) : ~ObjectIn(k, text)
            /\ result.confidence
                  = (IF result.action # None THEN 50 ELSE 0)
                      + (IF result.object # None THEN 50 ELSE 0)
            /\ result.confidence \in {0, 50, 100}

\* "stop pick": both pick and stop occur, pick is returned; no object, so the
\* confidence is 0.5.
C20_Witness ==
    /\ Len(calls) = 2
    /\ calls[2].fn = "extract_keywords"
    /\ calls[2].arg = <<"stop", "pick">>
    /\ calls[2].ret = [action |-> "pick", object |-> None, confidence |-> 50]

-----------------------------------------------------------------------------
(* Claims about get_command.                                               *)

\* get_command has returned for a text it heard; calls[2] is extract_keywords.
Heard == CommandPending /\ Len(calls) >= 3 /\ calls[2].fn = "extract_keywords"

\* The call of fn among calls, for a fn called once.
TheCall(fn) == calls[CHOOSE k \in 1..Len(calls) : calls[k].fn = fn]

\* C21: get_command calls the delegated extractor exactly when the keyword
\* confidence is below 0.7 and the extractor is in use; the action, object
\* and confidence it returns are then those of the extractor's result (None,
\* None and 0.0 for keys it lacks), and otherwise those of the keyword
\* result; no field comes from the other result.
C21_OneResultVerbatim ==
    Heard =>
        LET keyword_result == calls[2].ret
            use_gemini == calls[Len(calls)].arg.use_gemini
            called == CallsOf(calls, "extract_with_gemini") = 1
            ret == calls[Len(calls)].ret
        IN  /\ CallsOf(calls, "extract_with_gemini") <= 1
            /\ called <=> (keyword_result.confidence < 70 /\ use_gemini)
            /\ (called /\ "status" \in DOMAIN ret) =>
                  LET nlu == TheCall("extract_with_gemini").ret
                  IN  /\ ret.data.action
                            = (IF "action" \in nlu.keys THEN nlu.action ELSE None)
                      /\ ret.data.object
                            = (IF "object" \in nlu.keys THEN nlu.object ELSE None)
                      /\ ret.data.confidence
                            = (IF "confidence" \in nlu.keys THEN nlu.confidence
                               ELSE 0)
            /\ ~called =>
                  /\ ret.data.action = keyword_result.action
                  /\ ret.data.object = keyword_result.object
                  /\ ret.data.confidence = keyword_result.confidence

\* "bottle" gives the keyword result (None, bottle, 0.5); the extractor says
\* place with no object and confidence 0.3, and that is what is returned.
C21_Witness ==
    /\ Heard
    /\ calls[2].ret = [action |-> None, object |-> "bottle", confidence |-> 50]
    /\ CallsOf(calls, "extract_with_gemini") = 1
    /\ "status" \in DOMAIN calls[Len(calls)].ret
    /\ calls[Len(calls)].ret.status = "success"
    /\ calls[Len(calls)].ret.data
          = [action |-> "place", object |-> None, confidence |-> 30]

\* generate_content raised, or gave a text that is no JSON once cleaned.
NluFailed ==
    /\ Heard
    /\ CallsOf(calls, "generate_content") = 1
    /\ \/ TheCall("generate_content").ret.raises
       \/ TheCall("generate_content").ret.kind = "garbage"

\* C22: when the NLU call fails or its output cannot be parsed,
\* extract_with_gemini returns action None and confidence 0.0, get_command
\* returns an envelope of status error, and the coordinator then calls no
\* service and changes neither the ledger nor the arm for that utterance.
C22_NluFailureDispatchesNothing ==
    [][NluFailed =>
          /\ TheCall("extract_with_gemini").ret.type = "dict"
          /\ TheCall("extract_with_gemini").ret.action = None
          /\ TheCall("extract_with_gemini").ret.confidence = 0
          /\ "status" \in DOMAIN calls[Len(calls)].ret
          /\ calls[Len(calls)].ret.status = "error"
          /\ calls' = <<Call("get_command", None, calls[Len(calls)].ret)>>
          /\ UNCHANGED <<ledger_vars, motor_vars, vision_vars, running, pc,
                         raised>>]_vars

\* The extractor was asked about "the" and generate_content raised.
C22_Witness ==
    /\ NluFailed
    /\ calls[1].ret.words = <<"the">>
    /\ TheCall("generate_content").ret.raises
    /\ calls[Len(calls)].ret.status = "error"

-----------------------------------------------------------------------------
(* Claims about the history, the reports and the backlog of the ledger.    *)

\* C23: a log_action call extends the history by exactly one entry, at the
\* end, and leaves the earlier entries and their order as they were; a
\* report, with its recommendations, and a save leave the history as it was.
C23_HistoryAppendOnly ==
    [][IF calls'[Len(calls')].fn = "log_action"
       THEN /\ Len(action_history') = Len(action_history) + 1
            /\ SubSeq(action_history', 1, Len(action_history)) = action_history
            /\ action_history'[Len(action_history')]
                  = LogEntry(calls'[Len(calls')].arg)
       ELSE /\ calls'[1].fn \in {"get_performance_report", "_save_history"}
            /\ action_history' = action_history]_vars

\* A cup failure logged after the ten entries, bottle first, of a file.
C23_Witness ==
    /\ calls # <<>>
    /\ calls[Len(calls)].fn = "log_action"
    /\ Len(action_history) = save_frequency + 1
    /\ action_history[1].object = "bottle"
    /\ action_history[save_frequency + 1].object = "cup"
    /\ SubSeq(action_history, 1, save_frequency) = start_file.history

\* C28: get_performance_report returns a success envelope with the last 10
\* history entries in append order and the overall and per-object figures
\* of the ledger, and changes nothing in the ledger; a log_action made
\* afterwards does not change the report already returned.
C28_ReportIsSnapshot ==
    [][/\ (Len(calls') = 1 /\ calls'[1].fn = "get_performance_report")
          => /\ UNCHANGED ledger_vars
             /\ calls'[1].ret.status = "success"
             /\ calls'[1].ret.data.overall_performance = performance_stats
             /\ calls'[1].ret.data.object_performance = object_stats
             /\ calls'[1].ret.data.recent_actions
                   = SubSeq(action_history,
                            IF Len(action_history) > 10
                            THEN Len(action_history) - 9 ELSE 1,
                            Len(action_history))
       /\ (/\ Len(calls') = 2
           /\ calls'[2].fn = "log_action"
           /\ calls # <<>>
           /\ calls[1].fn = "get_performance_report")
          => calls'[1].ret = calls[1].ret]_vars

\* C29: the history entries the log file does not hold are always fewer than
\* save_frequency, whatever the length of the history loaded at the start.
C29_BacklogBelowFrequency ==
    /\ Len(log_file.history) <= Len(action_history)
    /\ SubSeq(action_history, 1, Len(log_file.history)) = log_file.history
    /\ Len(action_history) - Len(log_file.history) < save_frequency

\* Started from a file of 7 entries, saved at 10, the history has 19.
C29_Witness ==
    /\ Len(start_file.history) = 7
    /\ Len(log_file.history) = save_frequency
    /\ Len(action_history) = 2 * save_frequency - 1

-----------------------------------------------------------------------------
(* Claims about the motor agent.                                           *)

\* The latest calls are those of one direct call of fn.
Choreography(fn) == calls # <<>> /\ calls[Len(calls)].fn = fn

\* The steps that completed before the choreography returned.
Completed == [k \in 1..(Len(calls) - 1) |-> calls[k].fn]

\* C24: a pick runs move-to-position, open gripper, close gripper and lift
\* in this order, and when pick_object returns a success envelope the
\* gripper is closed and the arm is at the position of the object given.
C24_PickOrderAndGrasp ==
    Choreography("pick_object") =>
        LET order == <<"move_to_position", "open_gripper", "move_down",
                       "close_gripper", "lift">>
        IN  /\ Len(Completed) <= 5
            /\ Completed = SubSeq(order, 1, Len(Completed))
            /\ calls[Len(calls)].ret.status = "success" =>
                  /\ Completed = order
                  /\ ~gripper_open
                  /\ current_position = calls[Len(calls)].arg.position

\* The cup in the middle of the frame was picked.
C24_Witness ==
    /\ Choreography("pick_object")
    /\ calls[Len(calls)].arg.object.class_name = "cup"
    /\ calls[Len(calls)].ret.status = "success"
    /\ ~gripper_open
    /\ current_position.horizontal = "center"
    /\ current_position.coordinates = [x |-> 50, y |-> 50]

\* C25: pick_object and place_object raise nothing and return one envelope
\* for the whole sequence: of status error, with the text of the error, when
\* a step failed, and of status success only when every step completed.
C25_OneEnvelopePerSequence ==
    (Choreography("pick_object") \/ Choreography("place_object")) =>
        LET ret == calls[Len(calls)].ret
            steps == IF Choreography("pick_object") THEN 5 ELSE 4
        IN  /\ raised = None
            /\ CallsOf(calls, "pick_object") + CallsOf(calls, "place_object") = 1
            /\ ret.status \in {"success", "error"}
            /\ ret.status = "error" <=> Len(Completed) < steps
            /\ ret.status = "error" =>
                  /\ "error" \in DOMAIN ret.data
                  /\ ret.data.error = "actuator fault"
            /\ ret.status = "success" => Len(Completed) = steps

\* A place whose third step, the opening of the gripper, failed.
C25_Witness ==
    /\ Choreography("place_object")
    /\ Completed = <<"move_to_position", "move_down">>
    /\ calls[Len(calls)].ret.status = "error"
    /\ calls[Len(calls)].ret.data = [action |-> "place", error |-> "actuator fault"]
    /\ current_position = calls[Len(calls)].arg

-----------------------------------------------------------------------------
(* Claims about what a command cycle calls and what it leaves alone.       *)

PerceptionCalls == {"find_object", "scan_scene"}
ActuationCalls == {"pick_object", "place_object", "motor_stop"}

\* The positions in the calls c of calls to one of fns.
CallsTo(c, fns) == {k \in 1..Len(c) : c[k].fn \in fns}

DispatchedAction(c) ==
    IF c[1].ret.status = "success" THEN Get(c[1].ret.data, "action") ELSE None

\* C27: a cycle whose action is show, stop, move, any other unrecognized
\* action or None leaves the history, the overall and the per-object
\* statistics as they were and runs no pick or place choreography; the
\* ledger changes only in cycles of pick and place, by their log_action.
C27_OnlyPickAndPlaceLog ==
    [][CycleStep =>
          /\ DispatchedAction(calls') \notin {"pick", "place"} =>
                /\ UNCHANGED <<action_history, performance_stats, object_stats,
                               log_file>>
                /\ CallsOf(calls', "pick_object") = 0
                /\ CallsOf(calls', "place_object") = 0
                /\ CallsOf(calls', "log_action") = 0
          /\ <<action_history, performance_stats, object_stats>>'
                    # <<action_history, performance_stats, object_stats>> =>
                /\ DispatchedAction(calls') \in {"pick", "place"}
                /\ CallsOf(calls', "log_action") = 1]_vars

\* "move bottle" after one logged entry: nothing but get_command was called.
C27_Witness ==
    /\ pc = "loop"
    /\ Len(calls) = 1
    /\ calls[1].ret.status = "success"
    /\ calls[1].ret.data.action = "move"
    /\ calls[1].ret.data.object = "bottle"
    /\ Len(action_history) = 1
    /\ performance_stats.total_actions = 1

RECURSIVE SumAttempts(_)
SumAttempts(ostats) ==
    IF ostats = <<>> THEN 0 ELSE Head(ostats).attempts + SumAttempts(Tail(ostats))

\* C30: after command cycles from an empty ledger every logged entry has a
\* non-empty object and the result success or failure, so successes plus
\* failures make the total, and so do the attempts of all objects.
C30_EveryEntryCounted ==
    /\ \A i \in 1..Len(action_history) :
          /\ Truthy(action_history[i].object)
          /\ action_history[i].result \in {"success", "failure"}
    /\ performance_stats.successful_actions + performance_stats.failed_actions
          = performance_stats.total_actions
    /\ SumAttempts(object_stats) = performance_stats.total_actions
    /\ performance_stats.total_actions = Len(action_history)

\* A place with no object spoken, logged for "unknown", after a pick of the
\* bottle that succeeded.
C30_Witness ==
    /\ Len(action_history) = 2
    /\ action_history[1].action = "pick"
    /\ action_history[1].object = "bottle"
    /\ action_history[1].result = "success"
    /\ action_history[2].action = "place"
    /\ action_history[2].object = "unknown"
    /\ SumAttempts(object_stats) = 2

-----------------------------------------------------------------------------
(* Claims about shutdown.                                                  *)

\* C11: once the coordinator has shut down, the history, stats and
\* object_stats of the persisted file equal the in-memory ledger, however
\* many entries were logged since the last periodic save.
C11_ShutdownFlushes ==
    pc = "shutdown" =>
        /\ log_file.history = action_history
        /\ log_file.stats = performance_stats
        /\ log_file.object_stats = object_stats

====
